---- MODULE Spec2Model ----
(***************************************************************************)
(* A model of the rustlike roguelike: the scene-stack engine of the        *)
(* rostlaube crate (rostlaube/src/lib.rs, rostlaube/src/pda.rs) and the    *)
(* turn cycle of the game (src/game.rs, src/ai.rs).                        *)
(*                                                                         *)
(* Three specifications share the module:                                  *)
(*   Spec      one run of a scene-stack engine: either Engine::run of      *)
(*             rostlaube/src/lib.rs, with the nested command-line run of   *)
(*             next_event, or Engine::run of rostlaube/src/pda.rs;         *)
(*   SpecGame  Game::update of src/game.rs, statement by statement;        *)
(*   SpecPlay  Game::play, move_or_attack and Game::ai_turns of            *)
(*             src/game.rs, one call at a time.                            *)
(***************************************************************************)
EXTENDS Integers, Sequences, FiniteSets, TLC

VARIABLES
    frames,         \* the active Engine::run calls, outermost first
    running,        \* Engine.running
    window_closed,  \* what root.window_closed() answers
    fullscreen,     \* what root.is_fullscreen() answers
    last,           \* what the latest engine step did (the ENGINE: printlns)
    resume,         \* the scene uncovered by the latest Exit, until an event is delivered
    stack,          \* pda::Engine.stack
    data,           \* the data passed through pda::Engine::run
    pdaLast,        \* what the latest pda iteration did
    game,           \* the Game record
    pc,             \* the position inside Game::update
    cur,            \* the call of Game::update under way: its action, where it started
    ai_turns,       \* the local ai_turns of Game::update: the batch as computed
    batch,          \* the part of the batch that play has not resolved yet
    left_view       \* the entities a refresh found out of view after they were seen

engineVars == <<frames, running, window_closed, fullscreen, last, resume>>
pdaVars == <<stack, data, pdaLast>>
gameVars == <<game, pc, cur, ai_turns, batch, left_view>>
vars == <<frames, running, window_closed, fullscreen, last, resume,
          stack, data, pdaLast, game, pc, cur, ai_turns, batch, left_view>>

(***************************************************************************)
(* Bounds of the model.                                                    *)
(***************************************************************************)
MaxDepth == 2       \* deepest scene stack a Next may build
MaxNest == 1        \* nested command-line runs inside one another
MaxStr == 1         \* longest world string

Front(s) == SubSeq(s, 1, Len(s) - 1)
Last(s) == s[Len(s)]

(***************************************************************************)
(* Scenes, transitions, keys and events (rostlaube/src/lib.rs).            *)
(***************************************************************************)
NoScene == [kind |-> "None", id |-> 0, st |-> 0]
CommandLine == [kind |-> "CommandLine", id |-> 0, st |-> 0]
GenericScene(i, k) == [kind |-> "Generic", id |-> i, st |-> k]
SceneIds == {1, 2}

NoTr == [type |-> "None", next |-> NoScene]
Continue == [type |-> "Continue", next |-> NoScene]
Exit == [type |-> "Exit", next |-> NoScene]
NextTr(s) == [type |-> "Next", next |-> s]
ReplaceTr(s) == [type |-> "Replace", next |-> s]

Key(code, printable, shift, alt, ctrl) ==
    [code |-> code, printable |-> printable, shift |-> shift, alt |-> alt,
     left_ctrl |-> ctrl]

Keys ==
    { Key("Enter", "", FALSE, FALSE, FALSE),
      Key("Enter", "", FALSE, TRUE, FALSE),
      Key("Escape", "", FALSE, FALSE, FALSE),
      Key("Backspace", "", FALSE, FALSE, FALSE),
      Key("Char", "l", FALSE, FALSE, FALSE),
      Key("Char", "s", FALSE, FALSE, FALSE),
      Key("Char", "l", TRUE, FALSE, FALSE),
      Key("Char", "c", FALSE, FALSE, TRUE),
      Key("Char", "grave", TRUE, FALSE, FALSE) }   \* the grave accent key

KeyEvent(k) == [type |-> "KeyEvent", key |-> k, cmd |-> <<>>]
Command(s) == [type |-> "Command", key |-> Key("None", "", FALSE, FALSE, FALSE), cmd |-> s]

\* Which arm of the match in Engine::next_event a key takes.
KeyClass(k) ==
    IF k.code = "Enter" /\ k.alt THEN "fullscreen"
    ELSE IF k.code = "Char" /\ k.left_ctrl /\ k.printable = "c" THEN "exit"
    ELSE IF k.code = "Char" /\ k.shift /\ k.printable = "grave" THEN "command_line"
    ELSE "key"

\* char::to_uppercase: the letters have an upper case, no other key has
ToUpper(c) ==
    LET lower == <<"a", "b", "c", "d", "e", "f", "g", "h", "i", "j", "k", "l", "m",
                   "n", "o", "p", "q", "r", "s", "t", "u", "v", "w", "x", "y", "z">>
        upper == <<"A", "B", "C", "D", "E", "F", "G", "H", "I", "J", "K", "L", "M",
                   "N", "O", "P", "Q", "R", "S", "T", "U", "V", "W", "X", "Y", "Z">>
    IN  IF \E i \in 1..26 : lower[i] = c
        THEN upper[CHOOSE i \in 1..26 : lower[i] = c]
        ELSE c

\* CommandLine::interpret
CommandLineInterpret(event) ==
    IF event.type # "KeyEvent" THEN [type |-> "InvalidKey", text |-> ""]
    ELSE CASE event.key.code = "Enter" -> [type |-> "Confirm", text |-> ""]
           [] event.key.code = "Backspace" -> [type |-> "Delete", text |-> ""]
           [] event.key.code = "Spacebar" -> [type |-> "Read", text |-> " "]
           [] event.key.code = "Char" ->
                [type |-> "Read",
                 text |-> IF event.key.shift THEN ToUpper(event.key.printable)
                          ELSE event.key.printable]
           [] OTHER -> [type |-> "InvalidKey", text |-> ""]

\* CommandLine::update with Confirm clearing the string
CommandLineUpdateConfirmClears(scene, action, world) ==
    CASE action.type = "Confirm" -> [scene |-> scene, world |-> <<>>, tr |-> Exit]
      [] action.type = "Read" ->
            [scene |-> scene, world |-> Append(world, action.text), tr |-> Continue]
      [] action.type = "Delete" ->
            [scene |-> scene, world |-> Front(world), tr |-> Continue]
      [] OTHER -> [scene |-> scene, world |-> world, tr |-> Continue]

\* CommandLine::update
CommandLineUpdate(scene, action, world) ==
    CASE action.type = "Confirm" -> [scene |-> scene, world |-> world, tr |-> Exit]
      [] action.type = "Read" ->
            [scene |-> scene, world |-> Append(world, action.text), tr |-> Continue]
      [] action.type = "Delete" ->
            [scene |-> scene, world |-> Front(world), tr |-> Continue]
      [] OTHER -> [scene |-> scene, world |-> world, tr |-> Continue]

\* A State implementation the engine is generic over: interpret and update
\* may answer any transition, change the scene's own state (update takes
\* &mut self) and change the world (update takes &mut World).
GenericOutcomes(scene, world, depth) ==
    LET sts == {scene.st, (scene.st + 1) % 2}
        worlds == {world} \cup (IF Len(world) < MaxStr THEN {Append(world, "s")} ELSE {})
        fresh == {GenericScene(i, 0) : i \in SceneIds}
        trs == {Continue, Exit} \cup {ReplaceTr(t) : t \in fresh}
               \cup (IF depth < MaxDepth THEN {NextTr(t) : t \in fresh} ELSE {})
    IN  {[scene |-> GenericScene(scene.id, k), world |-> w, tr |-> t] :
            k \in sts, w \in worlds, t \in trs}

\* scene.interpret(&event) followed by scene.update(action, &mut world)
Outcomes(scene, event, world, depth) ==
    IF scene.kind = "CommandLine"
    THEN IF event.type = "KeyEvent" /\ event.key.code \in {"Char", "Spacebar"}
            /\ Len(world) >= MaxStr
         THEN {}
         ELSE {CommandLineUpdate(scene, CommandLineInterpret(event), world)}
    ELSE GenericOutcomes(scene, world, depth)

\* The transition match of Engine::run, on the stack the scene was popped from.
ApplyTransitionReplaceKeeps(scenes, scene, tr) ==
    CASE tr.type = "Continue" -> Append(scenes, scene)
      [] tr.type = "Exit" -> scenes
      [] tr.type = "Next" -> Append(Append(scenes, scene), tr.next)
      [] tr.type = "Replace" -> Append(Append(scenes, scene), tr.next)

ApplyTransition(scenes, scene, tr) ==
    CASE tr.type = "Continue" -> Append(scenes, scene)
      [] tr.type = "Exit" -> scenes
      [] tr.type = "Next" -> Append(Append(scenes, scene), tr.next)
      [] tr.type = "Replace" -> Append(scenes, tr.next)

\* if scenes.is_empty() { break; } at the end of an iteration.
AfterIterationNoBreak(scenes) == "check"

AfterIteration(scenes) == IF scenes = <<>> THEN "return" ELSE "check"

\* Engine::running
Running == ~window_closed /\ running

\* One call of Engine::run: its local scenes, its world, where it stands
\* (check: at the loop condition; body: waiting for a key; wait: inside
\* next_event, in a nested run; return: past the loop; returned: the caller
\* has the world), the scene the iteration popped, the world as passed in
\* and whether an update has changed it.
Frame(scenes, world, p, held, passed, mutated) ==
    [scenes |-> scenes, world |-> world, pc |-> p, held |-> held,
     passed |-> passed, mutated |-> mutated]

Mutated(f, world) == f.mutated \/ world # f.world

Top == frames[Len(frames)]
SetTop(f) == [frames EXCEPT ![Len(frames)] = f]

\* What a step did: which arm it took, in which run, and the transition the
\* scene answered (ENGINE: event / ENGINE: transition).
Step(op, tr) == [op |-> op, frame |-> Len(frames), tr |-> tr]

\* The scene an Exit uncovers in the outermost run is the one the next
\* event is due to; a delivered event settles it.
ResumeAfter(scenes, tr) ==
    IF Len(frames) = 1
    THEN IF tr.type = "Exit" /\ scenes # <<>> THEN Last(scenes) ELSE NoScene
    ELSE resume

(***************************************************************************)
(* Engine::run, rostlaube/src/lib.rs.                                      *)
(***************************************************************************)
Worlds == {<<>>, <<"s">>}

EngineInit ==
    /\ \E i \in SceneIds, w \in Worlds :
         frames = <<Frame(<<GenericScene(i, 0)>>, w, "check", NoScene, w, FALSE)>>
    /\ running = TRUE
    /\ window_closed = FALSE
    /\ fullscreen = FALSE
    /\ last = [op |-> "Init", frame |-> 1, tr |-> NoTr]
    /\ resume = NoScene

\* `while self.running()`
Check ==
    /\ frames # <<>>
    /\ Top.pc = "check"
    /\ frames' = SetTop([Top EXCEPT !.pc = IF Running THEN "body" ELSE "return"])
    /\ last' = Step("Check", NoTr)
    /\ UNCHANGED <<running, window_closed, fullscreen, resume>>

\* Alt+Enter: next_event toggles fullscreen and answers None; the scene the
\* iteration popped was moved into the closure chain and is dropped with it.
KeyFullscreen ==
    /\ frames # <<>>
    /\ Top.pc = "body"
    /\ Top.scenes # <<>>
    /\ \E k \in Keys :
         /\ KeyClass(k) = "fullscreen"
         /\ LET scenes == Front(Top.scenes)
            IN  frames' = SetTop([Top EXCEPT !.scenes = scenes,
                                             !.pc = AfterIteration(scenes)])
    /\ fullscreen' = ~fullscreen
    /\ last' = Step("Fullscreen", NoTr)
    /\ UNCHANGED <<running, window_closed, resume>>

\* Ctrl-C: next_event calls exit() and answers None.
KeyExit ==
    /\ frames # <<>>
    /\ Top.pc = "body"
    /\ Top.scenes # <<>>
    /\ \E k \in Keys :
         /\ KeyClass(k) = "exit"
         /\ LET scenes == Front(Top.scenes)
            IN  frames' = SetTop([Top EXCEPT !.scenes = scenes,
                                             !.pc = AfterIteration(scenes)])
    /\ fullscreen' = FALSE
    /\ running' = FALSE
    /\ last' = Step("Exit", NoTr)
    /\ UNCHANGED <<window_closed, resume>>

\* Shift+grave accent: next_event enters self.run(String::new(), CommandLine {}) while
\* the popped scene waits in the caller's closure chain.
KeyCommandLine ==
    /\ frames # <<>>
    /\ Top.pc = "body"
    /\ Top.scenes # <<>>
    /\ Len(frames) <= MaxNest
    /\ \E k \in Keys :
         /\ KeyClass(k) = "command_line"
         /\ frames' = Append(SetTop([Top EXCEPT !.scenes = Front(Top.scenes),
                                                !.pc = "wait",
                                                !.held = Last(Top.scenes)]),
                            Frame(<<CommandLine>>, <<>>, "check", NoScene, <<>>, FALSE))
    /\ last' = Step("Nested", NoTr)
    /\ UNCHANGED <<running, window_closed, fullscreen, resume>>

\* Any other key: Some(KeyEvent(key)) goes to interpret and update, and the
\* transition is applied.
KeyPress ==
    /\ frames # <<>>
    /\ Top.pc = "body"
    /\ Top.scenes # <<>>
    /\ \E k \in Keys :
         /\ KeyClass(k) = "key"
         /\ LET scene == Last(Top.scenes)
                below == Front(Top.scenes)
            IN  \E o \in Outcomes(scene, KeyEvent(k), Top.world, Len(Top.scenes)) :
                  LET scenes == ApplyTransition(below, o.scene, o.tr)
                  IN  /\ frames' = SetTop([Top EXCEPT !.scenes = scenes,
                                                      !.world = o.world,
                                                      !.mutated = Mutated(Top, o.world),
                                                      !.pc = AfterIteration(scenes)])
                      /\ last' = Step("Event", o.tr)
                      /\ resume' = ResumeAfter(scenes, o.tr)
    /\ UNCHANGED <<running, window_closed, fullscreen>>

\* A run returns its world. The outermost run hands it to the caller; a
\* nested run hands it to next_event, which delivers Command(string) to the
\* scene that was waiting.
Return ==
    /\ frames # <<>>
    /\ Top.pc = "return"
    /\ IF Len(frames) = 1
       THEN /\ frames' = SetTop([Top EXCEPT !.pc = "returned"])
            /\ last' = Step("Return", NoTr)
            /\ UNCHANGED resume
       ELSE LET outer == frames[Len(frames) - 1]
            IN  \E o \in Outcomes(outer.held, Command(Top.world), outer.world,
                                  Len(outer.scenes) + 1) :
                  LET scenes == ApplyTransition(outer.scenes, o.scene, o.tr)
                  IN  /\ frames' = [Front(frames) EXCEPT ![Len(frames) - 1] =
                                        Frame(scenes, o.world, AfterIteration(scenes),
                                              NoScene, outer.passed, Mutated(outer, o.world))]
                      /\ last' = [op |-> "Command", frame |-> Len(frames) - 1, tr |-> o.tr]
                      /\ resume' = IF Len(frames) = 2
                                   THEN IF o.tr.type = "Exit" /\ scenes # <<>>
                                        THEN Last(scenes) ELSE NoScene
                                   ELSE resume
    /\ UNCHANGED <<running, window_closed, fullscreen>>

\* The user closes the window.
CloseWindow ==
    /\ frames # <<>>
    /\ frames[1].pc # "returned"
    /\ ~window_closed
    /\ window_closed' = TRUE
    /\ last' = Step("Close", NoTr)
    /\ UNCHANGED <<frames, running, fullscreen, resume>>

EngineNext ==
    \/ Check
    \/ KeyFullscreen
    \/ KeyExit
    \/ KeyCommandLine
    \/ KeyPress
    \/ Return
    \/ CloseWindow

(***************************************************************************)
(* Engine::run, rostlaube/src/pda.rs, with the states of its tests and a   *)
(* State implementation that may answer anything.                          *)
(***************************************************************************)
StateOne == [kind |-> "StateOne", id |-> 0, st |-> 0]
StateTwo == [kind |-> "StateTwo", id |-> 0, st |-> 0]

\* tests::StateOne / tests::StateTwo: interpret
PdaInterpret(state) == IF state.kind = "StateOne" THEN 3 ELSE 5

\* tests::StateOne / tests::StateTwo: update
PdaUpdate(state, action) ==
    LET other == IF state.kind = "StateOne" THEN StateTwo ELSE StateOne
    IN  CASE action = 1 -> Continue
          [] action = 2 -> NextTr(other)
          [] action = 3 -> ReplaceTr(other)
          [] OTHER -> Exit

\* pda::State::update takes &self: a state cannot change itself.
PdaOutcomes(state, d, depth) ==
    IF state.kind = "Generic"
    THEN {o \in GenericOutcomes(state, d, depth) : o.scene = state}
    ELSE {[scene |-> state, world |-> d, tr |-> PdaUpdate(state, PdaInterpret(state))]}

PdaStep(op, recv, tr, passed, mutated) ==
    [op |-> op, recv |-> recv, tr |-> tr, passed |-> passed, mutated |-> mutated]

PdaInit ==
    /\ \E s \in {StateOne} \cup {GenericScene(i, 0) : i \in SceneIds} : stack = <<s>>
    /\ data \in Worlds
    /\ pdaLast = PdaStep("Init", NoScene, NoTr, data, FALSE)

\* One iteration of `while let Some(state) = self.stack.pop()`.
PdaIteration ==
    /\ pdaLast.op \in {"Init", "Iteration"}
    /\ stack # <<>>
    /\ LET state == Last(stack)
       IN  \E o \in PdaOutcomes(state, data, Len(stack)) :
             /\ stack' = ApplyTransition(Front(stack), state, o.tr)
             /\ data' = o.world
             /\ pdaLast' = PdaStep("Iteration", state, o.tr, pdaLast.passed,
                                   pdaLast.mutated \/ o.world # data)

\* The stack is empty: run returns the data.
PdaReturn ==
    /\ pdaLast.op \in {"Init", "Iteration"}
    /\ stack = <<>>
    /\ pdaLast' = [pdaLast EXCEPT !.op = "Return", !.recv = NoScene, !.tr = NoTr]
    /\ UNCHANGED <<stack, data>>

PdaNext == PdaIteration \/ PdaReturn

(***************************************************************************)
(* The game: src/game.rs, src/ai.rs, src/rng.rs.                           *)
(*                                                                         *)
(* Locations and directions are pairs <<x, y>>. An Option is a record      *)
(* with a some flag; an Ai is the sequence of its nested variants, the     *)
(* current one first (Confused{previous, num_turns} is the Confused        *)
(* record followed by previous), and <<>> is None. Glyphs and colours are  *)
(* left out. Every entity carries a uid that the code does not have: it    *)
(* names the entity across index changes, and a message carries the uid    *)
(* of the entity it was formatted for.                                     *)
(***************************************************************************)
PLAYER == 1                 \* index of the player (0 in the 0-based source)
TORCH_RADIUS == 10
HEAL_AMOUNT == 10
LIGHTNING_RANGE == 3
LIGHTNING_DAMAGE == 10
CONFUSE_RANGE == 5
CONFUSE_NUM_TURNS == 5
INVENTORY_SLOTS == 26

MapWidth == 5               \* the map is MapWidth x MapHeight cells
MapHeight == 5
MaxTurns == 2               \* Game::update is not called once turn = MaxTurns
MaxPlayerTurn == 2          \* nor once player_turn holds this many actions

Cells == (0..(MapWidth - 1)) \X (0..(MapHeight - 1))

\* The floor of the generated map: a ring of floor around one pillar, inside
\* a border of wall.
Floor == {<<1, 1>>, <<2, 1>>, <<3, 1>>, <<1, 2>>, <<3, 2>>, <<1, 3>>, <<2, 3>>, <<3, 3>>}

Abs(n) == IF n < 0 THEN -n ELSE n
Max(a, b) == IF a >= b THEN a ELSE b
Min(a, b) == IF a <= b THEN a ELSE b

\* Tile::empty / Tile::wall
TileEmpty == [blocked |-> FALSE, block_sight |-> FALSE, explored |-> FALSE, visible |-> FALSE]
TileWall == [blocked |-> TRUE, block_sight |-> TRUE, explored |-> FALSE, visible |-> FALSE]

\* The map dungeon::make_map returned.
GeneratedMap == [c \in Cells |-> IF c \in Floor THEN TileEmpty ELSE TileWall]

NoFighter ==
    [some |-> FALSE, max_health |-> 0, health |-> 0, defense |-> 0, power |-> 0,
     on_death |-> "None", health_regen |-> 0]
Fighter(max_health, health, defense, power, on_death, regen) ==
    [some |-> TRUE, max_health |-> max_health, health |-> health, defense |-> defense,
     power |-> power, on_death |-> on_death, health_regen |-> regen]
NoMovement == [some |-> FALSE, speed |-> 0]
Movement(speed) == [some |-> TRUE, speed |-> speed]
NoNoise == [some |-> FALSE, bark |-> "", mumble |-> ""]
Noise(bark, mumble) == [some |-> TRUE, bark |-> bark, mumble |-> mumble]

AiBasic == <<[tag |-> "Basic", num_turns |-> 0]>>
AiIdle == <<[tag |-> "Idle", num_turns |-> 0]>>
AiConfused(previous, n) == <<[tag |-> "Confused", num_turns |-> n]>> \o previous

\* Object::new
ObjectNew(uid) ==
    [uid |-> uid, loc |-> <<0, 0>>, name |-> "it", blocks |-> FALSE, visible |-> FALSE,
     seen |-> FALSE, alive |-> FALSE, movement |-> NoMovement, fighter |-> NoFighter,
     ai |-> <<>>, noise |-> NoNoise, item |-> "None"]

\* Object::player; health_regen is in hundredths (0.5 is 50)
ObjectPlayer(uid, loc, health) ==
    [ObjectNew(uid) EXCEPT !.loc = loc, !.name = "player", !.blocks = TRUE,
        !.alive = TRUE, !.visible = TRUE, !.seen = TRUE,
        !.movement = Movement(100),
        !.fighter = Fighter(30, health, 2, 5, "Player", 50)]

\* Object::orc
ObjectOrc(uid, loc, health) ==
    [ObjectNew(uid) EXCEPT !.loc = loc, !.name = "orc", !.blocks = TRUE, !.alive = TRUE,
        !.ai = AiBasic, !.movement = Movement(90),
        !.fighter = Fighter(10, health, 0, 3, "Monster", 10),
        !.noise = Noise("shout", "mumble")]

\* Object::potion / Object::scroll
ObjectItem(uid, loc, item, name) ==
    [ObjectNew(uid) EXCEPT !.loc = loc, !.name = name, !.item = item]

(***************************************************************************)
(* Actions and messages.                                                   *)
(***************************************************************************)
Act(type, id, target, dir) == [type |-> type, id |-> id, target |-> target, dir |-> dir]
Move(id, dir) == Act("Move", id, 0, dir)
AttackAct(id, target) == Act("Attack", id, target, <<0, 0>>)
PickUp(id, target) == Act("PickUp", id, target, <<0, 0>>)
UseItemAct(id, item) == Act("UseItem", id, item, <<0, 0>>)
Bark(id) == Act("Bark", id, 0, <<0, 0>>)
Mumble(id) == Act("Mumble", id, 0, <<0, 0>>)
Wait(id) == Act("Wait", id, 0, <<0, 0>>)
Nothing == Act("Nothing", 0, 0, <<0, 0>>)

\* Action::took_turn
TookTurnUseItemToo(action) == action.type # "Nothing"

TookTurn(action) ==
    CASE action.type = "Move" -> TRUE
      [] action.type = "Attack" -> TRUE
      [] action.type = "PickUp" -> TRUE
      [] action.type = "Bark" -> TRUE
      [] action.type = "Mumble" -> TRUE
      [] action.type = "Wait" -> TRUE
      [] action.type = "UseItem" -> FALSE
      [] action.type = "Nothing" -> FALSE

Msg(text, uid) == [text |-> text, uid |-> uid]

(***************************************************************************)
(* rng.rs: the values a roll can take.                                     *)
(***************************************************************************)
\* dx(x): 0 for 0, else 1..x
Dx(x) == IF x = 0 THEN {0} ELSE 1..x
\* d100(), at its ends and either side of the speed of an orc
D100 == {1, 90, 91, 100}
\* d12(), either side of the bark threshold
D12 == {1, 12}
\* dx(1000), either side of the mumble threshold
D1000 == {1, 1000}

(***************************************************************************)
(* Movement and collision.                                                 *)
(***************************************************************************)
\* distance(a, b) squared
Distance2(a, b) == (b[1] - a[1]) * (b[1] - a[1]) + (b[2] - a[2]) * (b[2] - a[2])

\* floor of the square root: `distance(..) as i32`
RECURSIVE ISqrtFrom(_, _)
ISqrtFrom(n, r) == IF (r + 1) * (r + 1) > n THEN r ELSE ISqrtFrom(n, r + 1)
DistanceInt(a, b) == ISqrtFrom(Distance2(a, b), 0)

Sign(n) == IF n < 0 THEN -1 ELSE IF n > 0 THEN 1 ELSE 0

\* direction
Direction(a, b) == <<Sign(b[1] - a[1]), Sign(b[2] - a[2])>>

\* destination
Destination(loc, dir) == <<loc[1] + dir[1], loc[2] + dir[2]>>

\* object_blocks
ObjectBlocks(loc, objects) ==
    \E i \in 1..Len(objects) : objects[i].blocks /\ objects[i].loc = loc

\* structure_blocks
StructureBlocks(loc, map) == map[loc].blocked

\* move_by: the objects after the attempt, and whether it moved
MoveByThroughObjects(id, dir, map, objects) ==
    LET dest == Destination(objects[id].loc, dir)
    IN  IF ~StructureBlocks(dest, map)
        THEN [ok |-> TRUE, objects |-> [objects EXCEPT ![id].loc = dest]]
        ELSE [ok |-> FALSE, objects |-> objects]

MoveBy(id, dir, map, objects) ==
    LET dest == Destination(objects[id].loc, dir)
    IN  IF ~(StructureBlocks(dest, map) \/ ObjectBlocks(dest, objects))
        THEN [ok |-> TRUE, objects |-> [objects EXCEPT ![id].loc = dest]]
        ELSE [ok |-> FALSE, objects |-> objects]

\* move_object, with the d100 roll of the speed check
MoveObjectVerticalFirst(id, dir, map, objects, roll) ==
    LET should_move == objects[id].movement.some /\ objects[id].movement.speed >= roll
        straight == MoveBy(id, dir, map, objects)
        horizontal == MoveBy(id, <<dir[1], 0>>, map, objects)
        vertical == MoveBy(id, <<0, dir[2]>>, map, objects)
    IN  IF ~should_move THEN [objects |-> objects, messages |-> <<>>]
        ELSE IF straight.ok THEN [objects |-> straight.objects, messages |-> <<>>]
        ELSE IF vertical.ok THEN [objects |-> vertical.objects, messages |-> <<>>]
        ELSE IF horizontal.ok THEN [objects |-> horizontal.objects, messages |-> <<>>]
        ELSE [objects |-> objects, messages |-> <<Msg("The way is blocked!", 0)>>]

MoveObject(id, dir, map, objects, roll) ==
    LET should_move == objects[id].movement.some /\ objects[id].movement.speed >= roll
        straight == MoveBy(id, dir, map, objects)
        horizontal == MoveBy(id, <<dir[1], 0>>, map, objects)
        vertical == MoveBy(id, <<0, dir[2]>>, map, objects)
    IN  IF ~should_move THEN [objects |-> objects, messages |-> <<>>]
        ELSE IF straight.ok THEN [objects |-> straight.objects, messages |-> <<>>]
        ELSE IF horizontal.ok THEN [objects |-> horizontal.objects, messages |-> <<>>]
        ELSE IF vertical.ok THEN [objects |-> vertical.objects, messages |-> <<>>]
        ELSE [objects |-> objects, messages |-> <<Msg("The way is blocked!", 0)>>]

\* Fighter::take_damage / Fighter::heal
TakeDamage(fighter, damage) == [fighter EXCEPT !.health = fighter.health - damage]
HealUncapped(fighter, amount) == [fighter EXCEPT !.health = fighter.health + amount]

Heal(fighter, amount) ==
    [fighter EXCEPT !.health = Min(fighter.health + amount, fighter.max_health)]

\* attack, with the attacker's power roll and the defender's defense roll
AttackUnclamped(attacker, defender, objects, power_roll, defense_roll) ==
    LET damage == IF objects[attacker].fighter.some /\ objects[defender].fighter.some
                  THEN power_roll - defense_roll ELSE 0
    IN  IF ~objects[defender].fighter.some
        THEN [objects |-> objects, messages |-> <<Msg("Cannot attack that!", 0)>>]
        ELSE [objects |-> [objects EXCEPT ![defender].fighter = TakeDamage(@, damage)],
              messages |-> <<Msg("attacks for damage", objects[defender].uid)>>]

Attack(attacker, defender, objects, power_roll, defense_roll) ==
    LET damage == IF objects[attacker].fighter.some /\ objects[defender].fighter.some
                  THEN power_roll - defense_roll ELSE 0
    IN  IF ~objects[defender].fighter.some
        THEN [objects |-> objects, messages |-> <<Msg("Cannot attack that!", 0)>>]
        ELSE IF damage > 0
        THEN [objects |-> [objects EXCEPT ![defender].fighter = TakeDamage(@, damage)],
              messages |-> <<Msg("attacks for damage", objects[defender].uid)>>]
        ELSE [objects |-> objects,
              messages |-> <<Msg("attacks but does no damage", objects[defender].uid)>>]

\* Vec::swap_remove taken for Vec::remove: the elements after i move down
SwapRemoveShifts(s, i) == SubSeq(s, 1, i - 1) \o SubSeq(s, i + 1, Len(s))

\* Vec::swap_remove: the last element takes the place of the removed one
SwapRemove(s, i) ==
    IF i = Len(s) THEN Front(s) ELSE [Front(s) EXCEPT ![i] = Last(s)]

\* Vec::remove: the elements after i move down
Remove(s, i) == SubSeq(s, 1, i - 1) \o SubSeq(s, i + 1, Len(s))

\* a panic: the call does not return
Panic(message) == [panic |-> message]
Panicked(result) == "panic" \in DOMAIN result

\* pickup_item
PickupItemOneMore(actor, item_id, objects, inventory) ==
    IF Len(inventory) > INVENTORY_SLOTS
    THEN [objects |-> objects, inventory |-> inventory,
          messages |-> <<Msg("Inventory full", 0)>>]
    ELSE [objects |-> SwapRemove(objects, item_id),
          inventory |-> Append(inventory, objects[item_id]),
          messages |-> <<Msg("picks up", objects[item_id].uid)>>]

\* for an actor other than the player the message reads objects[actor]
\* after the swap_remove, which panics when the actor was the last entity
PickupItem(actor, item_id, objects, inventory) ==
    IF Len(inventory) >= INVENTORY_SLOTS
    THEN [objects |-> objects, inventory |-> inventory,
          messages |-> <<Msg("Inventory full", 0)>>]
    ELSE IF actor # PLAYER /\ actor >= Len(objects)
    THEN Panic("index out of bounds")
    ELSE [objects |-> SwapRemove(objects, item_id),
          inventory |-> Append(inventory, objects[item_id]),
          messages |-> <<Msg("picks up", objects[item_id].uid)>>]

\* bark / mumble
BarkMessages(id, objects) ==
    IF objects[id].noise.some THEN <<Msg(objects[id].noise.bark, objects[id].uid)>> ELSE <<>>
MumbleMessages(id, objects) ==
    IF objects[id].noise.some THEN <<Msg(objects[id].noise.mumble, objects[id].uid)>> ELSE <<>>

\* fighters_by_distance: the fighters other than id within range, farthest
\* first; sort_by_key is stable, so equal distances keep index order
FightersInRange(id, objects, range) ==
    {i \in 1..Len(objects) :
        /\ i # id
        /\ objects[i].fighter.some
        /\ DistanceInt(objects[id].loc, objects[i].loc) <= range}

\* closest_fighter: the last of fighters_by_distance, 0 for None
ClosestFighter(id, objects, range) ==
    LET in_range == FightersInRange(id, objects, range)
        d(i) == DistanceInt(objects[id].loc, objects[i].loc)
    IN  IF in_range = {} THEN 0
        ELSE CHOOSE i \in in_range :
                \A j \in in_range : d(j) > d(i) \/ (d(j) = d(i) /\ j <= i)

\* cast_heal
CastHeal(id, g) ==
    IF ~g.objects[id].fighter.some
    THEN [result |-> "Cancelled", game |-> g, messages |-> <<Msg("Only fighters can drink!", 0)>>]
    ELSE IF g.objects[id].fighter.health = g.objects[id].fighter.max_health
    THEN [result |-> "Cancelled", game |-> g, messages |-> <<Msg("Already at full health!", 0)>>]
    ELSE [result |-> "UsedUp",
          game |-> [g EXCEPT !.objects[id].fighter = Heal(@, HEAL_AMOUNT)],
          messages |-> <<Msg("Healed!", 0)>>]

\* cast_lightning
CastLightning(id, g) ==
    LET target == ClosestFighter(id, g.objects, LIGHTNING_RANGE)
    IN  IF target = 0
        THEN [result |-> "Cancelled", game |-> g,
              messages |-> <<Msg("There are no targets in range.", 0)>>]
        ELSE [result |-> "UsedUp",
              game |-> [g EXCEPT !.objects[target].fighter = TakeDamage(@, LIGHTNING_DAMAGE)],
              messages |-> <<Msg("You zap", g.objects[target].uid)>>]

\* cast_confusion; a target fighter without an Ai (the player, when a
\* monster casts) fails the expect: the call panics
CastConfusion(id, g) ==
    LET target == ClosestFighter(id, g.objects, CONFUSE_RANGE)
    IN  IF target = 0
        THEN [result |-> "Cancelled", game |-> g,
              messages |-> <<Msg("There are no targets in range.", 0)>>]
        ELSE IF g.objects[target].ai = <<>>
        THEN Panic("Fighters must have AI!")
        ELSE [result |-> "UsedUp",
              game |-> [g EXCEPT !.objects[target].ai = AiConfused(@, CONFUSE_NUM_TURNS)],
              messages |-> <<Msg("looks confused", g.objects[target].uid)>>]

\* use_item
UseItemSwapRemoves(id, item_id, g) ==
    LET item == g.inventory[item_id].item
        cast == CASE item = "Heal" -> CastHeal(id, g)
                  [] item = "Lightning" -> CastLightning(id, g)
                  [] item = "Confusion" -> CastConfusion(id, g)
                  [] OTHER -> [result |-> "None", game |-> g, messages |-> <<>>]
    IN  IF cast.result = "UsedUp"
        THEN [game |-> [cast.game EXCEPT !.inventory = SwapRemove(@, item_id)],
              messages |-> cast.messages]
        ELSE [game |-> cast.game, messages |-> cast.messages]

UseItem(id, item_id, g) ==
    LET item == g.inventory[item_id].item
        cast == CASE item = "Heal" -> CastHeal(id, g)
                  [] item = "Lightning" -> CastLightning(id, g)
                  [] item = "Confusion" -> CastConfusion(id, g)
                  [] OTHER -> [result |-> "None", game |-> g, messages |-> <<>>]
    IN  IF Panicked(cast) THEN cast
        ELSE IF cast.result = "UsedUp"
        THEN [game |-> [cast.game EXCEPT !.inventory = Remove(@, item_id)],
              messages |-> cast.messages]
        ELSE [game |-> cast.game, messages |-> cast.messages]

\* dx(power)
PowerRolls(power) == IF power = 0 THEN {0} ELSE 1..power

\* The rolls that can come up when action is resolved in g; a roll the
\* action does not draw is pinned to its least value.
RollsFor(g, action) ==
    [d100 : IF action.type = "Move" /\ g.objects[action.id].movement.some
               /\ g.objects[action.id].movement.speed < 100
            THEN D100 ELSE {1},
     power : IF action.type = "Attack" /\ g.objects[action.id].fighter.some
             THEN PowerRolls(g.objects[action.id].fighter.power) ELSE {1},
     defense : IF action.type = "Attack" /\ g.objects[action.id].fighter.some
                  /\ g.objects[action.target].fighter.some
               THEN Dx(g.objects[action.target].fighter.defense) ELSE {0}]

\* One iteration of the loop of Game::play: resolve the action, append its
\* messages.
PlayAction(g, action, r) ==
    CASE action.type = "Move" ->
            LET m == MoveObject(action.id, action.dir, g.map, g.objects, r.d100)
            IN  [g EXCEPT !.objects = m.objects, !.messages = @ \o m.messages]
      [] action.type = "Attack" ->
            LET a == Attack(action.id, action.target, g.objects, r.power, r.defense)
            IN  [g EXCEPT !.objects = a.objects, !.messages = @ \o a.messages]
      [] action.type = "PickUp" ->
            LET p == PickupItem(action.id, action.target, g.objects, g.inventory)
            IN  IF Panicked(p) THEN p
                ELSE [g EXCEPT !.objects = p.objects, !.inventory = p.inventory,
                               !.messages = @ \o p.messages]
      [] action.type = "Bark" ->
            [g EXCEPT !.messages = @ \o BarkMessages(action.id, g.objects)]
      [] action.type = "Mumble" ->
            [g EXCEPT !.messages = @ \o MumbleMessages(action.id, g.objects)]
      [] action.type = "UseItem" ->
            LET u == UseItem(action.id, action.target, g)
            IN  IF Panicked(u) THEN u ELSE [u.game EXCEPT !.messages = @ \o u.messages]
      [] OTHER -> g

(***************************************************************************)
(* Field of view. The code asks tcod for it (FovMap::compute_fov, basic    *)
(* algorithm, walls lit); it is modelled as the cells within the radius    *)
(* that no sight-blocking cell hides from the player's cell.               *)
(***************************************************************************)
\* c lies on the line of cells from a to b, strictly between them
Between(a, c, b) ==
    LET dx == b[1] - a[1]
        dy == b[2] - a[2]
        cross == (c[1] - a[1]) * dy - (c[2] - a[2]) * dx
    IN  /\ c # a /\ c # b
        /\ Min(a[1], b[1]) <= c[1] /\ c[1] <= Max(a[1], b[1])
        /\ Min(a[2], b[2]) <= c[2] /\ c[2] <= Max(a[2], b[2])
        /\ 2 * Abs(cross) < Max(Abs(dx), Abs(dy))

\* init_fov: the cells sight passes through, as the map was generated
Transparent == {c \in Cells : ~GeneratedMap[c].block_sight}

\* the cells no cell that blocks sight hides from cell a
InSight == [a \in Cells |-> {c \in Cells : ~\E b \in Cells \ Transparent : Between(a, b, c)}]

\* FovMap::compute_fov: the cells in the field of view from loc
ComputeFov(loc, radius) ==
    {c \in InSight[loc] : Distance2(loc, c) <= radius * radius}

\* Game::visible
Visible(fov, loc) == loc \in fov

\* Game::update_map
UpdateMapForgets(map, fov) ==
    [c \in Cells |->
        IF Visible(fov, c)
        THEN [map[c] EXCEPT !.explored = TRUE, !.visible = TRUE]
        ELSE [map[c] EXCEPT !.explored = FALSE, !.visible = FALSE]]

UpdateMap(map, fov) ==
    [c \in Cells |->
        IF Visible(fov, c)
        THEN [map[c] EXCEPT !.explored = TRUE, !.visible = TRUE]
        ELSE [map[c] EXCEPT !.visible = FALSE]]

\* kill_player
KillPlayer(player) ==
    [object |-> [player EXCEPT !.alive = FALSE],
     messages |-> <<Msg("You die!", player.uid)>>]

\* kill_monster
KillMonsterKeepsAi(monster) ==
    [object |-> [monster EXCEPT !.alive = FALSE, !.blocks = FALSE,
                    !.fighter = NoFighter, !.name = "Remains"],
     messages |-> <<Msg("dies.", monster.uid)>>]

KillMonster(monster) ==
    [object |-> [monster EXCEPT !.alive = FALSE, !.blocks = FALSE,
                    !.fighter = NoFighter, !.ai = <<>>, !.name = "Remains"],
     messages |-> <<Msg("dies.", monster.uid)>>]

\* DeathCallback::call
OnDeath(object) ==
    IF object.fighter.on_death = "Player" THEN KillPlayer(object) ELSE KillMonster(object)

\* the amounts regenerate can heal by: chance(p) as i32 for p <= 1.0, else
\* the rate truncated
RegenAmounts(object) ==
    IF ~object.fighter.some THEN {0}
    ELSE IF object.fighter.health_regen > 100 THEN {object.fighter.health_regen \div 100}
    ELSE IF object.fighter.health_regen = 100 THEN {1}
    ELSE {0, 1}

\* regenerate
RegenerateTwice(object, amount) ==
    IF object.fighter.some THEN [object EXCEPT !.fighter = Heal(Heal(@, amount), amount)]
    ELSE object

Regenerate(object, amount) ==
    IF object.fighter.some THEN [object EXCEPT !.fighter = Heal(@, amount)] ELSE object

\* the body of the loop of Game::update_objects for one object
UpdateObjectSeesAgain(object, fov, full_turn, amount) ==
    LET sees == Visible(fov, object.loc)
        looked == IF Visible(fov, object.loc)
                  THEN [object EXCEPT !.visible = TRUE, !.seen = TRUE]
                  ELSE [object EXCEPT !.visible = FALSE]
        died == IF looked.fighter.some /\ looked.fighter.health <= 0
                THEN OnDeath(looked)
                ELSE [object |-> looked, messages |-> <<>>]
    IN  [object |-> IF full_turn /\ died.object.alive
                    THEN Regenerate(died.object, amount) ELSE died.object,
         messages |-> (IF sees THEN <<Msg("You see", object.uid)>> ELSE <<>>)
                      \o died.messages]

UpdateObject(object, fov, full_turn, amount) ==
    LET sees == Visible(fov, object.loc) /\ ~object.seen
        looked == IF Visible(fov, object.loc)
                  THEN [object EXCEPT !.visible = TRUE, !.seen = TRUE]
                  ELSE [object EXCEPT !.visible = FALSE]
        died == IF looked.fighter.some /\ looked.fighter.health <= 0
                THEN OnDeath(looked)
                ELSE [object |-> looked, messages |-> <<>>]
    IN  [object |-> IF full_turn /\ died.object.alive
                    THEN Regenerate(died.object, amount) ELSE died.object,
         messages |-> (IF sees THEN <<Msg("You see", object.uid)>> ELSE <<>>)
                      \o died.messages]

\* Game::update_objects from index id on; regen[i] is the amount the
\* regeneration roll of object i gives
RECURSIVE UpdateObjectsFrom(_, _, _, _, _, _)
UpdateObjectsFrom(id, objects, fov, full_turn, regen, messages) ==
    IF id > Len(objects) THEN [objects |-> objects, messages |-> messages]
    ELSE LET u == UpdateObject(objects[id], fov, full_turn, regen[id])
         IN  UpdateObjectsFrom(id + 1, [objects EXCEPT ![id] = u.object], fov,
                               full_turn, regen, messages \o u.messages)

\* Game::update_objects
UpdateObjectsPrepends(g, full_turn, regen) ==
    LET u == UpdateObjectsFrom(1, g.objects, g.fov, full_turn, regen, <<>>)
    IN  [g EXCEPT !.objects = u.objects, !.messages = u.messages \o @]

UpdateObjects(g, full_turn, regen) ==
    LET u == UpdateObjectsFrom(1, g.objects, g.fov, full_turn, regen, <<>>)
    IN  [g EXCEPT !.objects = u.objects, !.messages = @ \o u.messages]

\* Game::update_fov
UpdateFov(g) ==
    [g EXCEPT !.fov = ComputeFov(g.objects[PLAYER].loc, TORCH_RADIUS)]

NoRegen(g) == [i \in 1..Len(g.objects) |-> 0]

\* Game::refresh
Refresh(g) ==
    LET seeing == UpdateFov(g)
        mapped == [seeing EXCEPT !.map = UpdateMap(seeing.map, seeing.fov)]
    IN  UpdateObjects(mapped, FALSE, NoRegen(mapped))

\* Game::turn
TurnKeepsCounter(g, player, ai) ==
    [g EXCEPT !.turns = Append(@, <<player, ai>>), !.player_turn = <<>>]

Turn(g, player, ai) ==
    [g EXCEPT !.turns = Append(@, <<player, ai>>), !.turn = @ + 1, !.player_turn = <<>>]

\* Game::rollover
RolloverRecordsLast(g, player, ai, regen) ==
    LET seeing == UpdateFov(g)
        mapped == [seeing EXCEPT !.map = UpdateMap(seeing.map, seeing.fov)]
    IN  Turn(UpdateObjects(mapped, TRUE, regen), <<Last(player)>>, ai)

Rollover(g, player, ai, regen) ==
    LET seeing == UpdateFov(g)
        mapped == [seeing EXCEPT !.map = UpdateMap(seeing.map, seeing.fov)]
    IN  Turn(UpdateObjects(mapped, TRUE, regen), player, ai)

\* the regeneration rolls a rollover of g can draw
RegenRolls(g) ==
    {regen \in [1..Len(g.objects) -> 0..1] :
        \A i \in 1..Len(g.objects) :
            IF g.objects[i].alive /\ g.objects[i].fighter.some
               /\ g.objects[i].fighter.health > 0
            THEN regen[i] \in RegenAmounts(g.objects[i])
            ELSE regen[i] = 0}

(***************************************************************************)
(* ai.rs                                                                   *)
(***************************************************************************)
\* confused
ConfusedRevertsEarly(id, g, previous, num_turns) ==
    [turn |-> <<>>,
     ai |-> IF num_turns > 1 THEN AiConfused(previous, num_turns - 1) ELSE previous]

Confused(id, g, previous, num_turns) ==
    [turn |-> <<>>,
     ai |-> IF num_turns >= 1 THEN AiConfused(previous, num_turns - 1) ELSE previous]

\* basic, with the d12 roll of the bark
BasicLongArm(id, g, d12) ==
    LET object == g.objects[id]
        player == g.objects[PLAYER]
    IN  IF Visible(g.fov, object.loc)
        THEN IF Distance2(object.loc, player.loc) > 4
             THEN [turn |-> (IF d12 > 11 THEN <<Bark(id)>> ELSE <<>>)
                            \o <<Move(id, Direction(object.loc, player.loc))>>,
                   ai |-> AiBasic]
             ELSE IF player.fighter.some /\ player.fighter.health > 0
             THEN [turn |-> <<AttackAct(id, PLAYER)>>, ai |-> AiBasic]
             ELSE [turn |-> <<>>, ai |-> AiBasic]
        ELSE [turn |-> <<>>, ai |-> AiIdle]

BasicBarksLast(id, g, d12) ==
    LET object == g.objects[id]
        player == g.objects[PLAYER]
    IN  IF Visible(g.fov, object.loc)
        THEN IF Distance2(object.loc, player.loc) >= 4
             THEN [turn |-> <<Move(id, Direction(object.loc, player.loc))>>
                            \o (IF d12 > 11 THEN <<Bark(id)>> ELSE <<>>),
                   ai |-> AiBasic]
             ELSE IF player.fighter.some /\ player.fighter.health > 0
             THEN [turn |-> <<AttackAct(id, PLAYER)>>, ai |-> AiBasic]
             ELSE [turn |-> <<>>, ai |-> AiBasic]
        ELSE [turn |-> <<>>, ai |-> AiIdle]

Basic(id, g, d12) ==
    LET object == g.objects[id]
        player == g.objects[PLAYER]
    IN  IF Visible(g.fov, object.loc)
        THEN IF Distance2(object.loc, player.loc) >= 4
             THEN [turn |-> (IF d12 > 11 THEN <<Bark(id)>> ELSE <<>>)
                            \o <<Move(id, Direction(object.loc, player.loc))>>,
                   ai |-> AiBasic]
             ELSE IF player.fighter.some /\ player.fighter.health > 0
             THEN [turn |-> <<AttackAct(id, PLAYER)>>, ai |-> AiBasic]
             ELSE [turn |-> <<>>, ai |-> AiBasic]
        ELSE [turn |-> <<>>, ai |-> AiIdle]

\* idle, with the dx(1000) roll of the mumble
IdleActsAtOnce(id, g, d1000) ==
    IF Visible(g.fov, g.objects[id].loc) THEN Basic(id, g, 1)
    ELSE IF d1000 > 999 THEN [turn |-> <<Mumble(id)>>, ai |-> AiIdle]
    ELSE [turn |-> <<>>, ai |-> AiIdle]

Idle(id, g, d1000) ==
    IF Visible(g.fov, g.objects[id].loc) THEN [turn |-> <<>>, ai |-> AiBasic]
    ELSE IF d1000 > 999 THEN [turn |-> <<Mumble(id)>>, ai |-> AiIdle]
    ELSE [turn |-> <<>>, ai |-> AiIdle]

\* turn
AiTurn(id, ai, g, r) ==
    CASE ai[1].tag = "Basic" -> Basic(id, g, r.d12)
      [] ai[1].tag = "Idle" -> Idle(id, g, r.d1000)
      [] ai[1].tag = "Confused" -> Confused(id, g, Tail(ai), ai[1].num_turns)

\* the indices the loop of Game::ai_turns visits, in its order
AiIdsDescending(objects) == [k \in 1..(Len(objects) - PLAYER) |-> Len(objects) + 1 - k]

AiIds(objects) == [k \in 1..(Len(objects) - PLAYER) |-> PLAYER + k]

\* the loop of Game::ai_turns over the indices ids; r[id] holds the rolls
\* the policy of object id draws
RECURSIVE AiTurnsOver(_, _, _, _)
AiTurnsOver(ids, g, r, actions) ==
    IF ids = <<>> THEN [game |-> g, actions |-> actions]
    ELSE LET id == Head(ids)
         IN  IF g.objects[id].ai = <<>>
             THEN AiTurnsOver(Tail(ids), g, r, actions)
             ELSE LET t == AiTurn(id, g.objects[id].ai,
                                  [g EXCEPT !.objects[id].ai = <<>>], r[id])
                  IN  AiTurnsOver(Tail(ids), [g EXCEPT !.objects[id].ai = t.ai], r,
                                  actions \o t.turn)

\* Game::ai_turns
AiTurns(g, r) == AiTurnsOver(AiIds(g.objects), g, r, <<>>)

AiRolls == [d12 : D12, d1000 : D1000]

\* the rolls the policies can draw in g
AiRollsFor(g) ==
    {r \in [1..Len(g.objects) -> AiRolls] :
        \A i \in 1..Len(g.objects) :
            LET o == g.objects[i]
            IN  /\ IF i # PLAYER /\ o.ai # <<>> /\ o.ai[1].tag = "Basic"
                      /\ Visible(g.fov, o.loc)
                      /\ Distance2(o.loc, g.objects[PLAYER].loc) >= 4
                   THEN TRUE ELSE r[i].d12 = 1
                /\ IF i # PLAYER /\ o.ai # <<>> /\ o.ai[1].tag = "Idle"
                      /\ ~Visible(g.fov, o.loc)
                   THEN TRUE ELSE r[i].d1000 = 1}

(***************************************************************************)
(* What the player can ask for.                                            *)
(***************************************************************************)
\* Iterator::position: the least of the indices, 0 for None
Position(indices) ==
    IF indices = {} THEN 0 ELSE CHOOSE i \in indices : \A j \in indices : i <= j

\* move_or_attack: the actions it answers (none for None)
MoveOrAttackWalksIn(id, dir, map, objects) ==
    LET dest == Destination(objects[id].loc, dir)
    IN  IF StructureBlocks(dest, map) THEN {} ELSE {Move(id, dir)}

MoveOrAttack(id, dir, map, objects) ==
    LET dest == Destination(objects[id].loc, dir)
        defender == Position({i \in 1..Len(objects) :
                                objects[i].loc = dest /\ objects[i].fighter.some})
    IN  IF ObjectBlocks(dest, objects)
        THEN IF defender = 0 THEN {} ELSE {AttackAct(id, defender)}
        ELSE IF StructureBlocks(dest, map) THEN {}
        ELSE {Move(id, dir)}

\* move_or_attack: the messages it answers
MoveOrAttackMessages(id, dir, map, objects) ==
    LET dest == Destination(objects[id].loc, dir)
        defender == Position({i \in 1..Len(objects) :
                                objects[i].loc = dest /\ objects[i].fighter.some})
    IN  IF ObjectBlocks(dest, objects)
        THEN IF defender = 0 THEN <<Msg("Cannot attack that.", 0)>> ELSE <<>>
        ELSE IF StructureBlocks(dest, map) THEN <<Msg("It's blocked.", 0)>>
        ELSE <<>>

\* grab: the actions it answers (none for None)
GrabAnything(id, objects) ==
    LET item_id == Position({i \in 1..Len(objects) : objects[i].loc = objects[id].loc})
    IN  IF item_id = 0 THEN {} ELSE {PickUp(id, item_id)}

Grab(id, objects) ==
    LET item_id == Position({i \in 1..Len(objects) :
                                /\ objects[i].loc = objects[id].loc
                                /\ objects[i].item # "None"})
    IN  IF item_id = 0 THEN {} ELSE {PickUp(id, item_id)}

\* the directions of the movement keys that are tried
Dirs == {<<1, 0>>, <<-1, 0>>}

\* The actions Game::update is called with: the Move of a movement key as
\* scenes/world.rs sends it, Nothing, and what move_or_attack, grab and the
\* inventory offer.
PlayerActions(g) ==
    {Move(PLAYER, d) : d \in Dirs}
    \cup {Nothing, Wait(PLAYER)}
    \cup UNION {MoveOrAttack(PLAYER, d, g.map, g.objects) : d \in Dirs}
    \cup Grab(PLAYER, g.objects)
    \cup {UseItemAct(PLAYER, i) : i \in 1..Len(g.inventory)}

(***************************************************************************)
(* The GameWorld screen, scenes/world.rs: what it makes of an event and    *)
(* what its update does with that.                                         *)
(***************************************************************************)
\* game_action: the game action of a printable character
GameActionOf(c) ==
    CASE c = "k" -> Move(PLAYER, <<0, -1>>)
      [] c = "j" -> Move(PLAYER, <<0, 1>>)
      [] c = "h" -> Move(PLAYER, <<-1, 0>>)
      [] c = "l" -> Move(PLAYER, <<1, 0>>)
      [] c = "y" -> Move(PLAYER, <<-1, -1>>)
      [] c = "u" -> Move(PLAYER, <<1, -1>>)
      [] c = "b" -> Move(PLAYER, <<-1, 1>>)
      [] c = "n" -> Move(PLAYER, <<1, 1>>)
      [] OTHER -> Nothing

\* execute: the screen action of a command string
Execute(command) ==
    IF command = <<"l", "s">> THEN [type |-> "ListObjects", action |-> Nothing]
    ELSE [type |-> "Nothing", action |-> Nothing]

\* Screen::interpret for GameWorld
ScreenInterpret(event) ==
    IF event.type = "Command" THEN Execute(event.cmd)
    ELSE CASE event.key.code = "Escape" -> [type |-> "Exit", action |-> Nothing]
           [] event.key.code = "Char" /\ event.key.printable = "i" ->
                [type |-> "OpenInventory", action |-> Nothing]
           [] event.key.code = "Char" /\ event.key.printable = "c" ->
                [type |-> "OpenCharacterScreen", action |-> Nothing]
           [] event.key.code = "Char" ->
                [type |-> "GameAction", action |-> GameActionOf(event.key.printable)]
           [] OTHER -> [type |-> "Nothing", action |-> Nothing]

\* Screen::update for GameWorld: the transition it answers and the actions
\* it calls Game::update with
ScreenUpdate(action) ==
    CASE action.type = "Exit" -> [tr |-> Exit, updates |-> <<>>]
      [] action.type = "Nothing" -> [tr |-> Continue, updates |-> <<>>]
      [] action.type = "OpenInventory" ->
            [tr |-> NextTr([kind |-> "Inventory", id |-> 0, st |-> 0]), updates |-> <<>>]
      [] action.type = "OpenCharacterScreen" ->
            [tr |-> NextTr([kind |-> "Character", id |-> 0, st |-> 0]), updates |-> <<>>]
      [] action.type = "GameAction" -> [tr |-> Continue, updates |-> <<action.action>>]
      [] action.type = "ListObjects" -> [tr |-> Continue, updates |-> <<>>]

(***************************************************************************)
(* Game::new and Game::update.                                             *)
(*                                                                         *)
(* Game::update is taken one call at a time, so that what holds between    *)
(* its calls can be stated: play of the player's action, refresh,          *)
(* ai_turns, play of the batch one action at a time, rollover. pc names    *)
(* the call that is next; nothing else runs in between. cur remembers, for *)
(* the update under way, its action, the game it started from and the AI   *)
(* actions resolved so far; left_view collects the entities that were seen *)
(* and then out of view.                                                   *)
(***************************************************************************)
\* Game::new on the objects make_map placed; inventory is empty in a new
\* game
GameNew(objects, inventory) ==
    LET made == [map |-> GeneratedMap, objects |-> objects, turn |-> 0, turns |-> <<>>,
                 messages |-> <<>>, inventory |-> inventory, fov |-> {},
                 player_turn |-> <<>>]
    IN  [Refresh(made) EXCEPT !.messages = Append(@, Msg("Welcome", 0))]

\* The games explored, each the game Game::new makes of the objects placed
\* or that game later in play, when the player is wounded or carries a
\* scroll: a duel with an orc next to the player, a pack of two orcs two
\* steps off, and a room with a potion and a lightning bolt on the floor.
ItemName(item) ==
    CASE item = "Heal" -> "healing potion"
      [] item = "Lightning" -> "lightning bolt"
      [] OTHER -> "scroll"
Scroll(uid, loc, item) == ObjectItem(uid, loc, item, ItemName(item))
\* a scroll picked up earlier: it was in view when the player stood on it
Carried(uid, item) == [Scroll(uid, <<1, 1>>, item) EXCEPT !.visible = TRUE, !.seen = TRUE]
Duel(health) == <<ObjectPlayer(1, <<2, 1>>, health), ObjectOrc(2, <<1, 1>>, 10)>>
Pack ==
    <<ObjectPlayer(1, <<2, 1>>, 30), ObjectOrc(2, <<1, 3>>, 10), ObjectOrc(3, <<3, 3>>, 10)>>
Room ==
    <<ObjectPlayer(1, <<2, 1>>, 30), ObjectItem(2, <<3, 1>>, "Heal", "healing potion"),
      Scroll(3, <<1, 3>>, "Lightning")>>
Starts ==
    {[objects |-> Duel(30), inventory |-> <<>>],
     [objects |-> Duel(1), inventory |-> <<>>],
     [objects |-> Duel(30), inventory |-> <<Carried(3, "Lightning")>>],
     [objects |-> Duel(30), inventory |-> <<Carried(3, "Confusion")>>],
     [objects |-> Pack, inventory |-> <<>>],
     [objects |-> Room, inventory |-> <<>>]}

\* what the claims compare with of the game an update started from
Snapshot(g) == [objects |-> g.objects, turn |-> g.turn, turns |-> g.turns]

NoCur == [action |-> Nothing, before |-> <<>>, resolved |-> <<>>]

\* the entities of g that have been seen and are out of view
OutOfView(g) ==
    {g.objects[i].uid : i \in {j \in 1..Len(g.objects) :
                                  g.objects[j].seen /\ ~g.objects[j].visible}}

\* The call of Game::update that follows the call `step`.
AfterStepNoRefresh(step, took_turn, left) ==
    CASE step = "play_action" -> IF took_turn THEN "ai_turns" ELSE "refresh"
      [] step = "refresh" -> "idle"
      [] step = "ai_turns" -> IF left = <<>> THEN "rollover" ELSE "play"
      [] step = "play" -> IF left = <<>> THEN "rollover" ELSE "play"
      [] step = "rollover" -> "idle"

AfterStep(step, took_turn, left) ==
    CASE step = "play_action" -> "refresh"
      [] step = "refresh" -> IF took_turn THEN "ai_turns" ELSE "idle"
      [] step = "ai_turns" -> IF left = <<>> THEN "rollover" ELSE "play"
      [] step = "play" -> IF left = <<>> THEN "rollover" ELSE "play"
      [] step = "rollover" -> "idle"

GameInit ==
    /\ \E start \in Starts : game = GameNew(start.objects, start.inventory)
    /\ pc = "idle"
    /\ cur = NoCur
    /\ ai_turns = <<>>
    /\ batch = <<>>
    /\ left_view = {}

\* Game::update, lines 349-350: push the action, play it
Update ==
    /\ pc = "idle"
    /\ Len(game.player_turn) < MaxPlayerTurn
    /\ \E action \in PlayerActions(game) :
          /\ TookTurn(action) => game.turn < MaxTurns
          /\ \E r \in RollsFor(game, action) :
                game' = PlayAction([game EXCEPT !.player_turn = Append(@, action)],
                                   action, r)
          /\ cur' = [action |-> action, before |-> Snapshot(game), resolved |-> <<>>]
          /\ pc' = AfterStep("play_action", TookTurn(action), <<>>)
    /\ UNCHANGED <<ai_turns, batch, left_view>>

\* Game::update, line 351: refresh
UpdateRefresh ==
    /\ pc = "refresh"
    /\ game' = Refresh(game)
    /\ left_view' = left_view \cup OutOfView(game')
    /\ pc' = AfterStep("refresh", TookTurn(cur.action), <<>>)
    /\ cur' = IF pc' = "idle" THEN NoCur ELSE cur
    /\ UNCHANGED <<ai_turns, batch>>

\* Game::update, line 357: ai_turns
UpdateAiTurns ==
    /\ pc = "ai_turns"
    /\ \E r \in AiRollsFor(game) :
          LET t == AiTurns(game, r)
          IN  /\ game' = t.game
              /\ ai_turns' = t.actions
              /\ batch' = t.actions
              /\ pc' = AfterStep("ai_turns", TRUE, t.actions)
    /\ UNCHANGED <<cur, left_view>>

\* Game::update, line 358: one iteration of the loop of play on the batch
UpdatePlay ==
    /\ pc = "play"
    /\ \E r \in RollsFor(game, Head(batch)) :
          game' = PlayAction(game, Head(batch), r)
    /\ batch' = Tail(batch)
    /\ cur' = [cur EXCEPT !.resolved = Append(@, Head(batch))]
    /\ pc' = AfterStep("play", TRUE, Tail(batch))
    /\ UNCHANGED <<ai_turns, left_view>>

\* Game::update, line 360: rollover
UpdateRollover ==
    /\ pc = "rollover"
    /\ \E regen \in RegenRolls(game) :
          game' = Rollover(game, game.player_turn, ai_turns, regen)
    /\ left_view' = left_view \cup OutOfView(game')
    /\ pc' = AfterStep("rollover", TRUE, <<>>)
    /\ cur' = NoCur
    /\ ai_turns' = <<>>
    /\ batch' = <<>>

GameNext == Update \/ UpdateRefresh \/ UpdateAiTurns \/ UpdatePlay \/ UpdateRollover

(***************************************************************************)
(* The runs that are not under way.                                        *)
(***************************************************************************)
EngineIdle ==
    /\ frames = <<>>
    /\ running = TRUE
    /\ window_closed = FALSE
    /\ fullscreen = FALSE
    /\ last = [op |-> "Idle", frame |-> 0, tr |-> NoTr]
    /\ resume = NoScene

PdaIdle ==
    /\ stack = <<>>
    /\ data = <<>>
    /\ pdaLast = PdaStep("Idle", NoScene, NoTr, <<>>, FALSE)

GameIdle ==
    /\ game = <<>>
    /\ pc = "idle"
    /\ cur = <<>>
    /\ ai_turns = <<>>
    /\ batch = <<>>
    /\ left_view = {}

Init ==
    /\ \/ EngineInit /\ PdaIdle
       \/ EngineIdle /\ PdaInit
    /\ GameIdle

Next ==
    \/ EngineNext /\ UNCHANGED pdaVars /\ UNCHANGED gameVars
    \/ PdaNext /\ UNCHANGED engineVars /\ UNCHANGED gameVars

Spec == Init /\ [][Next]_vars

\* The game alone: Game::new, then calls of Game::update.
InitGame == EngineIdle /\ PdaIdle /\ GameInit

NextGame == GameNext /\ UNCHANGED engineVars /\ UNCHANGED pdaVars

SpecGame == InitGame /\ [][NextGame]_vars

(***************************************************************************)
(* The calls of the game taken one at a time: Game::play on a turn of one  *)
(* action, move_or_attack, and Game::ai_turns tick after tick, each from a *)
(* game that holds the cases its resolution tells apart. After a call, cur *)
(* holds the action, the game the call started from and what was drawn or  *)
(* answered; game is the game the call left.                               *)
(***************************************************************************)
MaxTicks == 4               \* Game::ai_turns is called at most MaxTicks times

\* Direction(dx, dy) with dx, dy in -1..1, as the keys and direction() make
AllDirs == {d \in (-1..1) \X (-1..1) : d # <<0, 0>>}

\* two orcs next to the player, one straight and one diagonal
Brawl(health) ==
    <<ObjectPlayer(1, <<2, 1>>, health), ObjectOrc(2, <<1, 1>>, 10),
      ObjectOrc(3, <<3, 2>>, 4)>>

\* the player in a corner on top of a potion and a scroll, an orc in the
\* corner across
Corner(health) ==
    <<ObjectPlayer(1, <<1, 1>>, health), ObjectItem(2, <<1, 1>>, "Heal", "healing potion"),
      ObjectOrc(3, <<3, 3>>, 10), Scroll(4, <<1, 1>>, "Lightning")>>

\* beside the player an entity that blocks and cannot be fought, on the
\* other side what kill_monster leaves of an orc; no fighter about
Rubble(health) ==
    <<ObjectPlayer(1, <<2, 1>>, health),
      [ObjectNew(2) EXCEPT !.loc = <<3, 1>>, !.name = "rock", !.blocks = TRUE],
      KillMonster(ObjectOrc(3, <<1, 1>>, 0)).object>>

\* confused orcs: one in view, one behind the pillar, one confused twice
Dazed(health) ==
    <<ObjectPlayer(1, <<2, 1>>, health),
      [ObjectOrc(2, <<1, 1>>, 10) EXCEPT !.ai = AiConfused(AiBasic, 2)],
      [ObjectOrc(3, <<2, 3>>, 10) EXCEPT !.ai = AiConfused(AiIdle, 2)],
      [ObjectOrc(4, <<3, 3>>, 10) EXCEPT !.ai = AiConfused(AiConfused(AiBasic, 1), 2)]>>

\* The games the calls start from, the player at full health or wounded;
\* the inventories: empty, one of each item, one slot free, all slots taken.
PlayStarts ==
    LET kit == <<Carried(11, "Lightning"), Carried(12, "Heal"), Carried(13, "Confusion")>>
        full == [i \in 1..INVENTORY_SLOTS |-> Carried(100 + i, "Heal")]
        almost == SubSeq(full, 1, INVENTORY_SLOTS - 1)
    IN  {[objects |-> objects, inventory |-> inventory] :
            objects \in UNION {{Brawl(h), Corner(h), Rubble(h), Dazed(h)} : h \in {30, 25, 15}},
            inventory \in {<<>>, kit, almost, full}}

\* The turns of one action Game::play is called with.
PlayCalls(g) ==
    LET ids == 1..Len(g.objects)
    IN  {Move(id, d) : id \in ids, d \in AllDirs}
        \cup {AttackAct(a, d) : a \in ids, d \in ids}
        \cup {PickUp(PLAYER, i) : i \in {j \in ids : g.objects[j].item # "None"}}
        \cup {UseItemAct(PLAYER, i) : i \in 1..Len(g.inventory)}
        \cup {Bark(id) : id \in ids} \cup {Mumble(id) : id \in ids}
        \cup {Wait(PLAYER), Nothing}

PlayInit ==
    /\ \E start \in PlayStarts : game = GameNew(start.objects, start.inventory)
    /\ pc = "ready"
    /\ cur = NoCur
    /\ ai_turns = <<>>
    /\ batch = <<>>
    /\ left_view = {}

\* Game::play(&vec![action])
CallPlay ==
    /\ pc = "ready"
    /\ \E action \in PlayCalls(game) :
          \E r \in RollsFor(game, action) :
              /\ game' = PlayAction(game, action, r)
              /\ cur' = [action |-> action, before |-> game, resolved |-> <<r>>]
    /\ pc' = "played"
    /\ UNCHANGED <<ai_turns, batch, left_view>>

\* move_or_attack(id, direction, &game.map, &game.objects)
CallMoveOrAttack ==
    /\ pc = "ready"
    /\ \E id \in 1..Len(game.objects) :
          \E dir \in AllDirs :
              cur' = [action |-> Move(id, dir), before |-> game,
                      resolved |-> <<[actions |-> MoveOrAttack(id, dir, game.map, game.objects),
                                      messages |-> MoveOrAttackMessages(id, dir, game.map,
                                                                        game.objects)]>>]
    /\ pc' = "asked"
    /\ UNCHANGED <<game, ai_turns, batch, left_view>>

\* Game::ai_turns(); cur.resolved collects what each tick returned
CallAiTurns ==
    /\ pc \in {"ready", "ticked"}
    /\ Len(cur.resolved) < MaxTicks
    /\ \E r \in AiRollsFor(game) :
          LET t == AiTurns(game, r)
          IN  /\ game' = t.game
              /\ ai_turns' = t.actions
              /\ cur' = [action |-> Nothing,
                         before |-> IF pc = "ready" THEN game ELSE cur.before,
                         resolved |-> Append(cur.resolved, t.actions)]
    /\ pc' = "ticked"
    /\ UNCHANGED <<batch, left_view>>

PlayNext == CallPlay \/ CallMoveOrAttack \/ CallAiTurns

InitPlay == EngineIdle /\ PdaIdle /\ PlayInit

NextPlay == PlayNext /\ UNCHANGED engineVars /\ UNCHANGED pdaVars

SpecPlay == InitPlay /\ [][NextPlay]_vars

(***************************************************************************)
(* The scene stack of a run as the engine's user sees it: while the run    *)
(* is inside a nested command line, the scene its iteration popped is      *)
(* still held for the Command event.                                       *)
(***************************************************************************)
StackOf(f) == IF f.pc = "wait" THEN Append(f.scenes, f.held) ELSE f.scenes

\* The step was an iteration of run number i that delivered an event.
Delivered(i) ==
    /\ frames # <<>>
    /\ last'.op \in {"Event", "Command"}
    /\ last'.frame = i
    /\ i <= Len(frames)

\* The step was an iteration of run number i in which Alt+Enter was pressed.
Toggled(i) ==
    /\ frames # <<>>
    /\ last'.op = "Fullscreen"
    /\ last'.frame = i

IsPrefix(s, t) == Len(s) <= Len(t) /\ SubSeq(t, 1, Len(s)) = s

(***************************************************************************)
(* C1. Scene stack, Next then Exit: when the top scene S answers Next(T),  *)
(* T lies directly above S and everything at or below S keeps its place;   *)
(* when the top scene answers Exit, the stack is what lay below it, with   *)
(* the uncovered scene S on top; and S receives the next event.            *)
(* The last part fails: Alt+Enter after the Exit discards S unheard.       *)
(***************************************************************************)
C1_NextPushesAbove ==
    Delivered(1) /\ last'.tr.type = "Next" =>
        LET before == StackOf(frames[1])
            after == StackOf(frames'[1])
        IN  /\ Len(after) = Len(before) + 1
            /\ Last(after) = last'.tr.next
            /\ SubSeq(after, 1, Len(before) - 1) = Front(before)
            /\ after[Len(before)].id = Last(before).id

C1_ExitUncovers ==
    Delivered(1) /\ last'.tr.type = "Exit" =>
        StackOf(frames'[1]) = Front(StackOf(frames[1]))

C1_ResumedSceneHearsNextEvent ==
    frames # <<>> /\ resume # NoScene /\ last'.frame = 1 =>
        /\ Delivered(1) => Last(StackOf(frames[1])) = resume
        /\ ~Toggled(1)

C1_NextThenExit ==
    [][C1_NextPushesAbove /\ C1_ExitUncovers /\ C1_ResumedSceneHearsNextEvent]_vars

(***************************************************************************)
(* C2. Scene stack, Replace: a Replace(T) transition leaves the depth      *)
(* unchanged, puts T where the top scene was and leaves every scene below  *)
(* untouched; the depth of a stack grows only through Next, by exactly     *)
(* one. Stated for both engines (lib.rs and pda.rs).                       *)
(***************************************************************************)
C2_ReplaceInPlace(before, after, tr) ==
    tr.type = "Replace" =>
        /\ Len(after) = Len(before)
        /\ Last(after) = tr.next
        /\ Front(after) = Front(before)

C2_Engine ==
    \A i \in 1..Len(frames) :
        /\ Delivered(i) => C2_ReplaceInPlace(StackOf(frames[i]), StackOf(frames'[i]), last'.tr)
        /\ i <= Len(frames') /\ Len(StackOf(frames'[i])) > Len(StackOf(frames[i])) =>
              /\ Delivered(i)
              /\ last'.tr.type = "Next"
              /\ Len(StackOf(frames'[i])) = Len(StackOf(frames[i])) + 1

C2_Pda ==
    /\ pdaLast'.op = "Iteration" /\ stack # <<>> =>
          C2_ReplaceInPlace(stack, stack', pdaLast'.tr)
    /\ Len(stack') > Len(stack) =>
          /\ pdaLast'.op = "Iteration"
          /\ pdaLast'.tr.type = "Next"
          /\ Len(stack') = Len(stack) + 1

C2_ReplaceKeepsDepth == [][C2_Engine /\ C2_Pda]_vars

\* A Replace has just been applied above another scene.
C2_Witness ==
    /\ Len(frames) = 1
    /\ last.op = "Event"
    /\ last.tr.type = "Replace"
    /\ Len(frames[1].scenes) = 2
    /\ frames[1].scenes[2] = last.tr.next

(***************************************************************************)
(* C3. Exit on the last scene: when an Exit (Break) empties the stack the  *)
(* run leaves its loop at once, processes no further event and hands the   *)
(* world back; the world changes only in update steps, and a run whose     *)
(* updates never changed the world returns the value it was passed.        *)
(***************************************************************************)
C3_ExitStops ==
    \A i \in 1..Len(frames) :
        Delivered(i) /\ last'.tr.type = "Exit" /\ StackOf(frames'[i]) = <<>> =>
            frames'[i].pc = "return"

C3_ReturnHandsBack ==
    Len(frames) = 1 /\ frames[1].pc = "return" =>
        \/ frames' = <<[frames[1] EXCEPT !.pc = "returned"]>>
        \/ frames' = frames /\ last'.op = "Close"

C3_OnlyUpdatesMutate ==
    \A i \in 1..Len(frames) :
        i <= Len(frames') /\ frames'[i].world # frames[i].world => Delivered(i)

C3_PdaStops ==
    /\ pdaLast.op = "Iteration" /\ stack = <<>> =>
          pdaLast'.op = "Return" /\ data' = data
    /\ pdaLast.op = "Return" => UNCHANGED pdaVars

C3_Unmutated ==
    /\ Len(frames) >= 1 /\ frames[1].pc \in {"return", "returned"} /\ ~frames[1].mutated =>
          frames[1].world = frames[1].passed
    /\ pdaLast.op = "Return" /\ ~pdaLast.mutated => data = pdaLast.passed

C3_ExitOnLastScene ==
    /\ [][C3_ExitStops /\ C3_ReturnHandsBack /\ C3_OnlyUpdatesMutate /\ C3_PdaStops]_vars
    /\ []C3_Unmutated

\* An Exit has just emptied the outermost stack, after updates that
\* changed the world.
C3_Witness ==
    /\ Len(frames) = 1
    /\ frames[1].pc = "return"
    /\ frames[1].scenes = <<>>
    /\ last.op = "Event"
    /\ last.tr.type = "Exit"
    /\ frames[1].mutated

(***************************************************************************)
(* C4. One loop iteration changes the scene stack only by applying the     *)
(* transition the top scene's update answered: a Continue, and an          *)
(* iteration whose key press the engine consumed itself (Alt+Enter), both  *)
(* leave the stack as it was. The code pops the scene and drops it when    *)
(* next_event answers None.                                                *)
(***************************************************************************)
C4_Iteration ==
    \A i \in 1..Len(frames) :
        /\ Delivered(i) /\ last'.tr.type = "Continue" =>
              /\ Len(StackOf(frames'[i])) = Len(StackOf(frames[i]))
              /\ Front(StackOf(frames'[i])) = Front(StackOf(frames[i]))
        /\ Delivered(i) => IsPrefix(Front(StackOf(frames[i])), StackOf(frames'[i]))
        /\ Toggled(i) => StackOf(frames'[i]) = StackOf(frames[i])

C4_PeekOnly == [][C4_Iteration]_vars

(***************************************************************************)
(* C5. The engine stops only when the scene stack has become empty or a    *)
(* quit signal was observed; with a non-empty stack and no quit signal it  *)
(* goes on to another tick; and the stack becomes empty only through an    *)
(* Exit transition answered by a scene. The last part fails: the scene     *)
(* dropped on Alt+Enter can be the last one.                               *)
(***************************************************************************)
C5_StopsOnlyWhenDue ==
    Len(frames) = 1 /\ frames[1].pc # "return" /\ frames'[1].pc = "return" =>
        frames'[1].scenes = <<>> \/ ~Running

C5_TicksOn ==
    Len(frames) = 1 /\ frames[1].pc = "check" /\ last'.op = "Check" /\ Running =>
        frames'[1].pc = "body"

C5_EmptyOnlyByExit ==
    frames # <<>> /\ StackOf(frames[1]) # <<>> /\ StackOf(frames'[1]) = <<>> =>
        Delivered(1) /\ last'.tr.type = "Exit"

C5_Stopped == [][C5_StopsOnlyWhenDue /\ C5_TicksOn /\ C5_EmptyOnlyByExit]_vars

(***************************************************************************)
(* What the claims about Game::update speak of.                            *)
(***************************************************************************)
\* A refresh of g would change nothing but the message log.
Refreshed(g) ==
    LET r == Refresh(g)
    IN  r.objects = g.objects /\ r.map = g.map /\ r.fov = g.fov

\* the AI state of every entity on the map
AiOf(objects) == {<<objects[i].uid, objects[i].ai>> : i \in 1..Len(objects)}

\* the objects without their AI state
WithoutAi(objects) == [i \in 1..Len(objects) |-> [objects[i] EXCEPT !.ai = <<>>]]

\* the health of every fighter on the map
HealthOf(objects) ==
    {<<objects[i].uid, objects[i].fighter.health>> :
        i \in {j \in 1..Len(objects) : objects[j].fighter.some}}

\* the step raised the health of a fighter
HealthRose ==
    \E before \in HealthOf(game.objects), after \in HealthOf(game'.objects) :
        before[1] = after[1] /\ after[2] > before[2]

\* how many messages of the log are one of texts about entity uid
Told(messages, texts, uid) ==
    Cardinality({k \in 1..Len(messages) :
                    messages[k].text \in texts /\ messages[k].uid = uid})

DeathTexts == {"You die!", "dies."}
SeeTexts == {"You see"}

\* every entity, on the map or carried
Entities(g) ==
    {g.objects[i] : i \in 1..Len(g.objects)} \cup {g.inventory[i] : i \in 1..Len(g.inventory)}

\* the step is a refresh: the plain one or the one of the rollover
RefreshStep == pc \in {"refresh", "rollover"}

(***************************************************************************)
(* C6. Turn cycle ordering in Game::update for a turn-consuming action:    *)
(* when the AI policies are evaluated the player's action is recorded and  *)
(* resolved and a refresh has been completed (another would change         *)
(* nothing), and nothing of the batch exists yet; evaluating the policies  *)
(* changes AI states only; while the batch is resolved no policy is        *)
(* evaluated again; and the turn counter, the history and regeneration     *)
(* move only in the rollover, which starts when the whole batch has been   *)
(* resolved and appends the player's actions and that batch.               *)
(***************************************************************************)
C6_PlayerFirst ==
    pc = "ai_turns" =>
        /\ Refreshed(game)
        /\ game.player_turn # <<>> /\ Last(game.player_turn) = cur.action
        /\ ai_turns = <<>> /\ cur.resolved = <<>>
        /\ WithoutAi(game'.objects) = WithoutAi(game.objects)
        /\ game'.map = game.map /\ game'.fov = game.fov
        /\ game'.messages = game.messages

C6_BatchBeforePlay ==
    pc = "play" =>
        /\ ai_turns' = ai_turns
        /\ AiOf(game'.objects) = AiOf(game.objects)
        /\ cur.resolved \o batch = ai_turns

C6_CommitLast ==
    /\ (game'.turn # game.turn \/ game'.turns # game.turns) =>
          /\ pc = "rollover" /\ batch = <<>> /\ cur.resolved = ai_turns
          /\ game'.turn = game.turn + 1
          /\ game'.turns = Append(game.turns, <<game.player_turn, ai_turns>>)
    /\ pc \in {"refresh", "ai_turns", "play"} => ~HealthRose
    /\ pc = "rollover" => game'.turn = game.turn + 1

C6_TurnCycle == [][C6_PlayerFirst /\ C6_BatchBeforePlay /\ C6_CommitLast]_vars

\* The player has moved, the batch of two or more AI actions is resolved
\* and the rollover is next.
C6_Witness ==
    /\ pc = "rollover"
    /\ cur.action.type = "Move"
    /\ cur.before.objects[PLAYER].loc # game.objects[PLAYER].loc
    /\ Len(ai_turns) >= 2
    /\ cur.resolved = ai_turns

(***************************************************************************)
(* C7. AI batch order: the actors of the batch ai_turns produced come in   *)
(* ascending index order, none of them is the player, who never has an AI  *)
(* state, and an entity's Bark stays ahead of its Move; play resolves the  *)
(* batch from the front, one produced action after the other.              *)
(***************************************************************************)
C7_Ascending ==
    \A k \in 1..Len(ai_turns), l \in 1..Len(ai_turns) :
        k < l =>
            /\ ai_turns[k].id <= ai_turns[l].id
            /\ ai_turns[k].id = ai_turns[l].id =>
                  ~(ai_turns[k].type = "Move" /\ ai_turns[l].type = "Bark")

C7_NeverPlayer ==
    /\ \A k \in 1..Len(ai_turns) : ai_turns[k].id > PLAYER
    /\ game.objects[PLAYER].ai = <<>>

C7_InOrder ==
    pc = "play" =>
        LET action == ai_turns[Len(cur.resolved) + 1]
        IN  /\ cur'.resolved = Append(cur.resolved, action)
            /\ \E r \in RollsFor(game, action) : game' = PlayAction(game, action, r)

C7_BatchOrder ==
    [][C7_Ascending /\ C7_Ascending' /\ C7_NeverPlayer /\ C7_NeverPlayer' /\ C7_InOrder]_vars

\* Two entities acted, one of them barked and moved, and all of it is
\* resolved.
C7_Witness ==
    /\ pc = "rollover"
    /\ cur.resolved = ai_turns
    /\ \E k \in 1..Len(ai_turns), l \in 1..Len(ai_turns) : ai_turns[k].id < ai_turns[l].id
    /\ \E k \in 1..(Len(ai_turns) - 1) :
          /\ ai_turns[k].type = "Bark" /\ ai_turns[k + 1].type = "Move"
          /\ ai_turns[k].id = ai_turns[k + 1].id

(***************************************************************************)
(* C8. took_turn gates the AI by the variant of the action alone: after    *)
(* the refresh Game::update goes on to the AI exactly for Move, Attack,    *)
(* PickUp, Bark, Mumble and Wait. An update with UseItem or Nothing ends   *)
(* with its refresh: no AI action is computed or resolved, no fighter      *)
(* regenerates, the turn counter and the history stay. As first stated the *)
(* claim adds that no entity's AI state changes; that fails, since the     *)
(* item used can confuse its target and can kill it. What holds is that    *)
(* an AI state changes only to None, on a dead entity, or to Confused      *)
(* around the state it was, by the scroll.                                 *)
(***************************************************************************)
ConsumingTypes == {"Move", "Attack", "PickUp", "Bark", "Mumble", "Wait"}
ActionTypes == ConsumingTypes \cup {"UseItem", "Nothing"}

C8_ByVariant ==
    /\ \A type \in ActionTypes, id \in 1..2, target \in 0..2, dir \in Dirs :
          TookTurn(Act(type, id, target, dir)) <=> type \in ConsumingTypes
    /\ pc = "refresh" => (pc' = "ai_turns" <=> cur.action.type \in ConsumingTypes)
    /\ pc = "refresh" => (pc' = "idle" <=> cur.action.type \in {"UseItem", "Nothing"})

C8_Quiet ==
    (pc = "refresh" /\ cur.action.type \in {"UseItem", "Nothing"}) =>
        /\ pc' = "idle"
        /\ ai_turns' = <<>> /\ batch' = <<>>
        /\ game'.turn = cur.before.turn
        /\ game'.turns = cur.before.turns
        /\ ~HealthRose
        /\ cur.action.type = "Nothing" =>
              HealthOf(game'.objects) = HealthOf(cur.before.objects)

C8_NoAiChange ==
    (pc = "refresh" /\ cur.action.type \in {"UseItem", "Nothing"}) =>
        AiOf(game'.objects) = AiOf(cur.before.objects)

C8_AiChangeByItemOnly ==
    (pc = "refresh" /\ cur.action.type \in {"UseItem", "Nothing"}) =>
        \A i \in 1..Len(game'.objects) :
            LET after == game'.objects[i]
                before == cur.before.objects[i]
            IN  /\ after.uid = before.uid
                /\ \/ after.ai = before.ai
                   \/ after.ai = <<>> /\ ~after.alive
                   \/ /\ cur.action.type = "UseItem"
                      /\ after.ai = AiConfused(before.ai, CONFUSE_NUM_TURNS)

\* the claim as first stated
C8_AsStated == [][C8_ByVariant /\ C8_Quiet /\ C8_NoAiChange]_vars

C8_TookTurnGates == [][C8_ByVariant /\ C8_Quiet /\ C8_AiChangeByItemOnly]_vars

\* An update with UseItem has ended at its refresh and left an entity
\* confused that no AI turn has touched since.
C8_Witness ==
    /\ pc = "idle"
    /\ game.player_turn # <<>> /\ Last(game.player_turn).type = "UseItem"
    /\ \E i \in 1..Len(game.objects) :
          /\ game.objects[i].ai # <<>>
          /\ game.objects[i].ai[1] = [tag |-> "Confused", num_turns |-> CONFUSE_NUM_TURNS]

(***************************************************************************)
(* C9. Death handling fires exactly once per entity, the player included:  *)
(* the refresh that finds a fighter at health <= 0 appends its death       *)
(* message and clears alive, the log never holds two death messages for    *)
(* one entity, and an entity with a death message is not alive. For the    *)
(* player this fails: kill_player leaves the Fighter in place and          *)
(* update_objects does not look at alive, so every later refresh appends   *)
(* You die! again.                                                         *)
(***************************************************************************)
C9_FiresAtRefresh ==
    RefreshStep =>
        \A i \in 1..Len(game.objects) :
            LET o == game.objects[i]
            IN  (o.fighter.some /\ o.fighter.health <= 0 /\ o.alive) =>
                    /\ ~game'.objects[i].alive
                    /\ Told(game'.messages, DeathTexts, o.uid)
                          = Told(game.messages, DeathTexts, o.uid) + 1

C9_Once ==
    \A o \in Entities(game) :
        /\ Told(game.messages, DeathTexts, o.uid) <= 1
        /\ Told(game.messages, DeathTexts, o.uid) = 1 => ~o.alive

C9_DeathOnce == [][C9_FiresAtRefresh /\ C9_Once /\ C9_Once']_vars

(***************************************************************************)
(* C10. You see is appended exactly once per entity: a refresh appends it  *)
(* for an entity exactly when the entity's cell is in the field of view    *)
(* and seen is false, and sets seen; no other step appends it; seen never  *)
(* goes back to false, on the map or in the inventory, whatever index the  *)
(* entity has; so the log holds at most one for an entity, one exactly for *)
(* the entities on the map that are seen, and none for the player.         *)
(***************************************************************************)
C10_FirstSight ==
    IF RefreshStep
    THEN \A i \in 1..Len(game.objects) :
            LET o == game.objects[i]
                first == Visible(game'.fov, o.loc) /\ ~o.seen
            IN  /\ game'.objects[i].uid = o.uid
                /\ first => game'.objects[i].seen
                /\ Told(game'.messages, SeeTexts, o.uid)
                      = Told(game.messages, SeeTexts, o.uid) + (IF first THEN 1 ELSE 0)
    ELSE \A o \in Entities(game) :
            Told(game'.messages, SeeTexts, o.uid) = Told(game.messages, SeeTexts, o.uid)

C10_SeenForever ==
    \A before \in Entities(game), after \in Entities(game') :
        (before.uid = after.uid /\ before.seen) => after.seen

C10_OncePerEntity ==
    /\ \A o \in Entities(game) : Told(game.messages, SeeTexts, o.uid) <= 1
    /\ \A i \in (PLAYER + 1)..Len(game.objects) :
          game.objects[i].seen <=> Told(game.messages, SeeTexts, game.objects[i].uid) = 1
    /\ game.objects[PLAYER].seen
    /\ Told(game.messages, SeeTexts, game.objects[PLAYER].uid) = 0

C10_YouSeeOnce ==
    [][C10_FirstSight /\ C10_SeenForever /\ C10_OncePerEntity /\ C10_OncePerEntity']_vars

\* An entity that was seen and then out of view is in view again, with its
\* one message.
C10_Witness ==
    \E i \in (PLAYER + 1)..Len(game.objects) :
        /\ game.objects[i].uid \in left_view
        /\ game.objects[i].visible
        /\ Told(game.messages, SeeTexts, game.objects[i].uid) = 1

(***************************************************************************)
(* What a call of Game::play on one action did: Played(type) holds after   *)
(* such a call, Was is the game it started from.                           *)
(***************************************************************************)
Played(type) == pc = "played" /\ cur.action.type = type
Was == cur.before
Drawn == cur.resolved[1]

(***************************************************************************)
(* C11: an attack between two fighters lowers the defender's health by     *)
(* max(a - d, 0), where a is the attacker's roll in 1..power and d the     *)
(* defender's roll, 0 for defense 0 and in 1..defense otherwise; the       *)
(* health of no other entity changes, and no attack raises any health.     *)
(***************************************************************************)
C11_Rolls ==
    LET a == Was.objects[cur.action.id].fighter
        d == Was.objects[cur.action.target].fighter
    IN  a.some /\ d.some =>
            /\ Drawn.power \in 1..a.power
            /\ IF d.defense = 0 THEN Drawn.defense = 0 ELSE Drawn.defense \in 1..d.defense

C11_Damage ==
    LET a == Was.objects[cur.action.id].fighter
        d == Was.objects[cur.action.target].fighter
        hit == IF a.some THEN Max(Drawn.power - Drawn.defense, 0) ELSE 0
    IN  d.some => game.objects[cur.action.target].fighter.health = d.health - hit

C11_OthersKeep ==
    /\ Len(game.objects) = Len(Was.objects)
    /\ \A i \in 1..Len(game.objects) :
          i # cur.action.target => game.objects[i] = Was.objects[i]

C11_NeverRaises ==
    \A i \in 1..Len(game.objects) :
        game.objects[i].fighter.health <= Was.objects[i].fighter.health

C11_AttackDamage ==
    Played("Attack") => C11_Rolls /\ C11_Damage /\ C11_OthersKeep /\ C11_NeverRaises

\* an orc rolled 3 against the player's 2 and took one point of health
C11_Witness ==
    /\ Played("Attack")
    /\ cur.action.target = PLAYER
    /\ Drawn.power = 3 /\ Drawn.defense = 2
    /\ game.objects[PLAYER].fighter.health = Was.objects[PLAYER].fighter.health - 1

\* the item a UseItem call named
Used == Was.inventory[cur.action.target]

(***************************************************************************)
(* C12: a Heal used by a fighter at full health is cancelled: the health   *)
(* is unchanged and the potion stays in the inventory. Below full health   *)
(* the health becomes min(health + 10, max_health) and the potion is       *)
(* consumed.                                                               *)
(***************************************************************************)
C12_AtFull ==
    LET f == Was.objects[cur.action.id].fighter
    IN  f.health = f.max_health =>
            /\ game.objects = Was.objects
            /\ game.inventory = Was.inventory
            /\ Last(game.messages).text = "Already at full health!"

C12_Below ==
    LET f == Was.objects[cur.action.id].fighter
    IN  f.health < f.max_health =>
            /\ game.objects[cur.action.id].fighter.health
                  = Min(f.health + 10, f.max_health)
            /\ Len(game.inventory) = Len(Was.inventory) - 1
            /\ ~\E i \in 1..Len(game.inventory) : game.inventory[i].uid = Used.uid
            /\ Last(game.messages).text = "Healed!"

C12_HealCapped ==
    Played("UseItem") /\ Used.item = "Heal" => C12_AtFull /\ C12_Below

\* a potion drunk at 25 of 30 brought the health to 30, not 35
C12_Witness ==
    /\ Played("UseItem") /\ Used.item = "Heal"
    /\ Was.objects[PLAYER].fighter.health = 25
    /\ game.objects[PLAYER].fighter.health = 30
    /\ Len(game.inventory) = 2

\* what a call of move_or_attack answered, and the cell it was asked about
Asked == pc = "asked"
Answer == cur.resolved[1]
AskedCell == Destination(Was.objects[cur.action.id].loc, cur.action.dir)

\* the entities of the game before the call that block the cell
Blockers(cell) ==
    {i \in 1..Len(Was.objects) : Was.objects[i].loc = cell /\ Was.objects[i].blocks}

(***************************************************************************)
(* C13: move_or_attack answers Attack on the entity when a blocking entity *)
(* with a Fighter is in the destination cell, and never Move; no action    *)
(* and "Cannot attack that." when the blocking entity has no Fighter; no   *)
(* action and "It's blocked." when no entity blocks and the tile does;     *)
(* Move in the direction asked in every other case. It changes no state.   *)
(***************************************************************************)
C13_Fighter ==
    LET fighters == {i \in Blockers(AskedCell) : Was.objects[i].fighter.some}
    IN  fighters # {} =>
            /\ \E i \in fighters : Answer.actions = {AttackAct(cur.action.id, i)}
            /\ Answer.messages = <<>>

C13_NoFighter ==
    (/\ Blockers(AskedCell) # {}
     /\ \A i \in Blockers(AskedCell) : ~Was.objects[i].fighter.some) =>
        /\ Answer.actions = {}
        /\ Answer.messages = <<Msg("Cannot attack that.", 0)>>

C13_Tile ==
    Blockers(AskedCell) = {} /\ Was.map[AskedCell].blocked =>
        /\ Answer.actions = {}
        /\ Answer.messages = <<Msg("It's blocked.", 0)>>

C13_Free ==
    Blockers(AskedCell) = {} /\ ~Was.map[AskedCell].blocked =>
        /\ Answer.actions = {Move(cur.action.id, cur.action.dir)}
        /\ Answer.messages = <<>>

C13_MoveOrAttack ==
    Asked => C13_Fighter /\ C13_NoFighter /\ C13_Tile /\ C13_Free /\ game = Was

\* asked to step onto the orc beside the player, it answered the attack on it
C13_Witness ==
    /\ Asked
    /\ cur.action.id = PLAYER
    /\ Was.objects[2].name = "orc" /\ Was.objects[2].loc = AskedCell
    /\ Answer.actions = {AttackAct(PLAYER, 2)}

\* after calls of Game::ai_turns: how many there were, and whether the
\* entity at index i is in the Confused state in game g
Ticked == pc = "ticked"
Ticks == Len(cur.resolved)
IsConfused(g, i) == g.objects[i].ai # <<>> /\ g.objects[i].ai[1].tag = "Confused"
ActedIn(actions, i) == \E k \in 1..Len(actions) : actions[k].id = i

(***************************************************************************)
(* What confused does: an entity that is Confused{previous, num_turns = 2} *)
(* emits no action in the next two calls of Game::ai_turns, in view or     *)
(* not, and is still Confused after each, with num_turns 1 and then 0; the *)
(* third call, silent as well, leaves it in previous. A call that leaves   *)
(* an entity Confused lowers its num_turns by one and keeps previous; a    *)
(* call that ends the confusion leaves exactly previous.                   *)
(***************************************************************************)
C14_TwoTicks ==
    Ticked =>
        \A i \in 2..Len(Was.objects) :
            IsConfused(Was, i) /\ Was.objects[i].ai[1].num_turns = 2 =>
                LET previous == Tail(Was.objects[i].ai)
                IN  /\ Ticks \in {1, 2} =>
                          /\ game.objects[i].ai = AiConfused(previous, 2 - Ticks)
                          /\ ~ActedIn(cur.resolved[Ticks], i)
                    /\ Ticks = 3 => game.objects[i].ai = previous

C14_Tick ==
    pc' = "ticked" =>
        \A i \in 2..Len(game.objects) :
            IsConfused(game, i) =>
                /\ ~ActedIn(ai_turns', i)
                /\ \/ /\ game.objects[i].ai[1].num_turns >= 1
                      /\ game'.objects[i].ai
                            = AiConfused(Tail(game.objects[i].ai),
                                         game.objects[i].ai[1].num_turns - 1)
                   \/ /\ game.objects[i].ai[1].num_turns = 0
                      /\ game'.objects[i].ai = Tail(game.objects[i].ai)

C14_ConfusedTwoTicks == [][C14_TwoTicks /\ C14_TwoTicks' /\ C14_Tick]_vars

\* three calls on: the orc in view beside the player is Basic again and the
\* orc behind the pillar Idle again, and neither acted in the first two
C14_Witness ==
    /\ Ticked /\ Ticks = 3
    /\ Was.objects[2].ai = AiConfused(AiBasic, 2) /\ Visible(Was.fov, Was.objects[2].loc)
    /\ Was.objects[3].ai = AiConfused(AiIdle, 2) /\ ~Visible(Was.fov, Was.objects[3].loc)
    /\ game.objects[2].ai = AiBasic /\ game.objects[3].ai = AiIdle
    /\ cur.resolved[1] = <<>> /\ cur.resolved[2] = <<>>

\* the turns the policy ai can answer for entity i in game g
TurnsOf(i, ai, g) == {AiTurn(i, ai, g, r).turn : r \in AiRolls}

\* the spec's count of the silent calls: an entity that was
\* Confused{previous, num_turns = 2} emits no action in the first and the
\* second call of Game::ai_turns, and in the third it is in previous again,
\* so that its turn in the third call is a turn of previous
C14_ThirdTickIsPrevious ==
    Ticked /\ Ticks = 3 =>
        \A i \in 2..Len(Was.objects) :
            IsConfused(Was, i) /\ Was.objects[i].ai[1].num_turns = 2 =>
                /\ ~ActedIn(cur.resolved[1], i)
                /\ ~ActedIn(cur.resolved[2], i)
                /\ SelectSeq(cur.resolved[3], LAMBDA a : a.id = i)
                        \in TurnsOf(i, Tail(Was.objects[i].ai), Was)

\* a call that leaves an entity Confused lowers its num_turns and keeps
\* previous; a call that ends the confusion leaves exactly previous
C14_Decreases ==
    pc' = "ticked" =>
        \A i \in 2..Len(game.objects) :
            IsConfused(game, i) =>
                \/ game'.objects[i].ai = Tail(game.objects[i].ai)
                \/ /\ IsConfused(game', i)
                   /\ Tail(game'.objects[i].ai) = Tail(game.objects[i].ai)
                   /\ game'.objects[i].ai[1].num_turns
                        < game.objects[i].ai[1].num_turns

(***************************************************************************)
(* C14: an entity that is Confused{previous, num_turns = 2} emits no       *)
(* action, in view or not, for exactly two calls of Game::ai_turns and in  *)
(* the third call it is in previous again and takes the turn of previous;  *)
(* in general num_turns strictly decreases in each call in which the       *)
(* entity stays Confused, and the state it reverts to is exactly the       *)
(* wrapped previous.                                                       *)
(***************************************************************************)
C14_ExactlyTwoTicks == [][C14_ThirdTickIsPrevious' /\ C14_Decreases]_vars

(***************************************************************************)
(* C15: the first entity of game.objects is the player in every state of   *)
(* a game that Game::new made and Game::update was called on with the      *)
(* PickUp actions grab answers, a pickup that moves the last entity into   *)
(* the slot of the item included.                                          *)
(***************************************************************************)
C15_PlayerFirst ==
    /\ Len(game.objects) >= 1
    /\ game.objects[PLAYER].uid = 1
    /\ game.objects[PLAYER].fighter.on_death = "Player"
    /\ \A i \in 1..Len(game.inventory) : game.inventory[i].uid # 1

\* the potion was picked up and the scroll, the last entity, took its slot
C15_Witness ==
    /\ Len(game.inventory) = 1 /\ game.inventory[1].item = "Heal"
    /\ Len(game.objects) = 2
    /\ game.objects[2].item = "Lightning"
    /\ game.objects[PLAYER].uid = 1

\* the entities in a sequence of objects
Among(objects) == {objects[i] : i \in 1..Len(objects)}

(***************************************************************************)
(* C16: a PickUp with 26 items in the inventory appends "Inventory full"   *)
(* and leaves the world entities and the inventory as they were; with      *)
(* fewer, the item it names, and nothing else, leaves the world entities   *)
(* and is appended to the inventory. The inventory never holds more than   *)
(* 26 items.                                                               *)
(***************************************************************************)
C16_Full ==
    Len(Was.inventory) >= 26 =>
        /\ game.objects = Was.objects
        /\ game.inventory = Was.inventory
        /\ game.messages = Append(Was.messages, Msg("Inventory full", 0))

C16_Room ==
    Len(Was.inventory) < 26 =>
        LET item == Was.objects[cur.action.target]
        IN  /\ game.inventory = Append(Was.inventory, item)
            /\ Len(game.objects) = Len(Was.objects) - 1
            /\ Among(game.objects) = Among(Was.objects) \ {item}

C16_PickUp ==
    /\ Len(game.inventory) <= 26
    /\ Played("PickUp") => C16_Full /\ C16_Room

\* with 26 items carried, picking up the potion underfoot was refused
C16_Witness ==
    /\ Played("PickUp")
    /\ Len(Was.inventory) = 26 /\ Len(game.inventory) = 26
    /\ Was.objects[cur.action.target].item = "Heal"
    /\ Last(game.messages).text = "Inventory full"

(***************************************************************************)
(* C17: no step resets the explored flag of a tile; after a refresh, the   *)
(* plain one or the one of the rollover, the visible flag of every tile    *)
(* says whether the tile is in the field of view computed from the cell    *)
(* the player is in; a visible tile is an explored tile.                   *)
(***************************************************************************)
C17_Monotonic ==
    \A c \in Cells : game.map[c].explored => game'.map[c].explored

C17_VisibleIsFov ==
    RefreshStep =>
        \A c \in Cells :
            game'.map[c].visible
                <=> c \in ComputeFov(game'.objects[PLAYER].loc, TORCH_RADIUS)

C17_VisibleExplored ==
    \A c \in Cells : game.map[c].visible => game.map[c].explored

C17_FogOfWar ==
    [][/\ C17_Monotonic
       /\ C17_VisibleIsFov
       /\ C17_VisibleExplored /\ C17_VisibleExplored']_vars

\* the player walked on and a refresh is done: a tile seen before is out
\* of view and still explored
C17_Witness ==
    /\ pc = "idle" /\ game.turn >= 1
    /\ \E c \in Cells : game.map[c].explored /\ ~game.map[c].visible
    /\ \E c \in Cells : game.map[c].visible

\* the range of the scroll a UseItem call named
RangeOf(item) == IF item = "Lightning" THEN 3 ELSE 5

\* the fighters other than the user within range of the user, by distance
InRange(range) ==
    LET user == cur.action.id
    IN  {i \in 1..Len(Was.objects) :
            /\ i # user
            /\ Was.objects[i].fighter.some
            /\ Distance2(Was.objects[user].loc, Was.objects[i].loc) <= range * range}

\* no fighter in range is strictly nearer to the user than t
Nearest(t, range) ==
    LET user == cur.action.id
    IN  \A j \in InRange(range) :
            Distance2(Was.objects[user].loc, Was.objects[j].loc)
                >= Distance2(Was.objects[user].loc, Was.objects[t].loc)

\* objects as they would be had the scroll struck t
Struck(item, t) ==
    IF item = "Lightning"
    THEN [Was.objects EXCEPT ![t].fighter.health = @ - 10]
    ELSE [Was.objects EXCEPT ![t].ai = AiConfused(@, CONFUSE_NUM_TURNS)]

(***************************************************************************)
(* C18: a scroll of lightning or of confusion strikes a fighter other than *)
(* the user that is within the range (3, 5) and that no fighter is         *)
(* strictly nearer than; lightning lowers the health of that fighter, and  *)
(* of no other, by 10. With no fighter in range the use is cancelled with  *)
(* "There are no targets in range." and no health or Ai changes.           *)
(***************************************************************************)
C18_Strikes ==
    InRange(RangeOf(Used.item)) # {} =>
        \E t \in InRange(RangeOf(Used.item)) :
            /\ Nearest(t, RangeOf(Used.item))
            /\ game.objects = Struck(Used.item, t)

C18_Cancelled ==
    InRange(RangeOf(Used.item)) = {} =>
        /\ game.objects = Was.objects
        /\ game.inventory = Was.inventory
        /\ game.messages = Append(Was.messages, Msg("There are no targets in range.", 0))

C18_NearestFighter ==
    Played("UseItem") /\ Used.item \in {"Lightning", "Confusion"} =>
        C18_Strikes /\ C18_Cancelled

\* what the resolver of the item a UseItem call named answered
ResultOf ==
    CASE Used.item = "Heal" -> CastHeal(cur.action.id, Was).result
      [] Used.item = "Lightning" -> CastLightning(cur.action.id, Was).result
      [] Used.item = "Confusion" -> CastConfusion(cur.action.id, Was).result

\* the uids of a sequence of objects, in its order
Uids(objects) == [i \in 1..Len(objects) |-> objects[i].uid]

(***************************************************************************)
(* C19: when the resolver answers UsedUp, the item used, and no other,     *)
(* leaves the inventory: it is one shorter and the items left are in the   *)
(* order they were in. When it answers Cancelled the inventory is as it    *)
(* was. Either way the world holds the entities it held.                   *)
(***************************************************************************)
C19_UsedUp ==
    ResultOf = "UsedUp" =>
        /\ Len(game.inventory) = Len(Was.inventory) - 1
        /\ \A i \in 1..Len(game.inventory) :
              game.inventory[i] = Was.inventory[IF i < cur.action.target THEN i ELSE i + 1]

C19_CancelledKeeps ==
    ResultOf = "Cancelled" => game.inventory = Was.inventory

C19_WorldKeeps == Uids(game.objects) = Uids(Was.objects)

C19_UseItem ==
    Played("UseItem") => C19_UsedUp /\ C19_CancelledKeeps /\ C19_WorldKeeps

\* the first of three items was used up: the second and third are left, in
\* that order
C19_Witness ==
    /\ Played("UseItem") /\ cur.action.target = 1 /\ ResultOf = "UsedUp"
    /\ Len(Was.inventory) = 3
    /\ Uids(game.inventory) = <<Was.inventory[2].uid, Was.inventory[3].uid>>

\* the entity a Move call named, as it was, and the cells the move tries
Mover == Was.objects[cur.action.id]
Tries ==
    <<Destination(Mover.loc, cur.action.dir),
      Destination(Mover.loc, <<cur.action.dir[1], 0>>),
      Destination(Mover.loc, <<0, cur.action.dir[2]>>)>>

\* the cell held neither a blocking tile nor a blocking entity
Free(cell) == ~Was.map[cell].blocked /\ Blockers(cell) = {}

PassedSpeedCheck == Mover.movement.some /\ Mover.movement.speed >= Drawn.d100

(***************************************************************************)
(* C20: a Move in direction (dx, dy) whose speed check fails leaves the    *)
(* location as it was and appends no message. When the check passes the    *)
(* entity ends in the first of loc+(dx,dy), loc+(dx,0), loc+(0,dy) that    *)
(* holds neither a blocking tile nor a blocking entity; when none of the   *)
(* three is free it stays and "The way is blocked!" is appended. No other  *)
(* entity moves.                                                           *)
(***************************************************************************)
C20_TooSlow ==
    ~PassedSpeedCheck =>
        game.objects = Was.objects /\ game.messages = Was.messages

C20_FirstFree ==
    PassedSpeedCheck /\ (\E k \in 1..3 : Free(Tries[k])) =>
        LET first == CHOOSE k \in 1..3 :
                        Free(Tries[k]) /\ \A j \in 1..(k - 1) : ~Free(Tries[j])
        IN  /\ game.objects[cur.action.id].loc = Tries[first]
            /\ game.messages = Was.messages

C20_AllBlocked ==
    PassedSpeedCheck /\ (\A k \in 1..3 : ~Free(Tries[k])) =>
        /\ game.objects[cur.action.id].loc = Mover.loc
        /\ game.messages = Append(Was.messages, Msg("The way is blocked!", 0))

C20_OthersStay ==
    /\ Len(game.objects) = Len(Was.objects)
    /\ \A i \in 1..Len(game.objects) :
          i # cur.action.id => game.objects[i] = Was.objects[i]

C20_MoveResolution ==
    Played("Move") => C20_TooSlow /\ C20_FirstFree /\ C20_AllBlocked /\ C20_OthersStay

\* a diagonal into the pillar with both sides free: the entity slid along x
C20_Witness ==
    /\ Played("Move")
    /\ ~Free(Tries[1]) /\ Free(Tries[2]) /\ Free(Tries[3])
    /\ cur.action.dir[1] # 0 /\ cur.action.dir[2] # 0
    /\ game.objects[cur.action.id].loc = Tries[2]

(***************************************************************************)
(* C21: the refresh that follows the player's action regenerates nothing.  *)
(* The rollover, which only an update with a turn-consuming action         *)
(* reaches, raises the health of an entity by 0 or 1 (the regeneration     *)
(* rates are at most 1.0), and only of an entity that has a Fighter, had   *)
(* health above 0 at the rollover and is alive after its death check.      *)
(***************************************************************************)
C21_NotInRefresh == pc = "refresh" => ~HealthRose

C21_InRollover ==
    pc = "rollover" =>
        /\ TookTurn(cur.action)
        /\ \A i \in 1..Len(game.objects) :
              LET was == game.objects[i]
                  is == game'.objects[i]
              IN  /\ is.fighter.some =>
                        is.fighter.health - was.fighter.health \in {0, 1}
                  /\ is.fighter.some /\ is.fighter.health > was.fighter.health =>
                        was.fighter.health > 0 /\ is.alive
                  /\ was.fighter.some /\ was.fighter.health <= 0 =>
                        /\ ~is.alive
                        /\ is.fighter.some => is.fighter.health = was.fighter.health

C21_RegenAtRollover == [][C21_NotInRefresh /\ C21_InRollover]_vars

\* the player, at 1 of 30 with nothing to drink, waited a turn out unhurt
\* and is at 2
C21_Witness ==
    /\ pc = "idle" /\ game.turn = 1
    /\ game.inventory = <<>>
    /\ game.objects[PLAYER].fighter.health = 2
    /\ game.objects[PLAYER].alive

(***************************************************************************)
(* C22: the turn counter equals the number of entries of the history in    *)
(* every state. An update with a turn-consuming action appends one entry,  *)
(* in its rollover, and raises the counter by one; the entry holds the     *)
(* player's batch and, as its AI batch, the AI actions that were resolved  *)
(* in the update, in their order. Nothing else writes either.              *)
(***************************************************************************)
C22_CounterIsLength == game.turn = Len(game.turns)

C22_OneEntry ==
    pc = "rollover" =>
        /\ game'.turns = Append(game.turns, <<game.player_turn, cur.resolved>>)
        /\ game'.turn = game.turn + 1
        /\ TookTurn(cur.action) /\ Last(game.player_turn) = cur.action
        /\ game'.turn = cur.before.turn + 1
        /\ Len(game'.turns) = Len(cur.before.turns) + 1

C22_ElseKept ==
    pc # "rollover" => game'.turns = game.turns /\ game'.turn = game.turn

C22_History ==
    [][/\ C22_CounterIsLength /\ C22_CounterIsLength'
       /\ C22_OneEntry /\ C22_ElseKept]_vars

\* two turns were taken; the latest entry holds a player batch of two
\* actions and the AI actions resolved in it
C22_Witness ==
    /\ pc = "idle" /\ game.turn = 2 /\ Len(game.turns) = 2
    /\ Len(Last(game.turns)[1]) = 2
    /\ Last(game.turns)[2] # <<>>

(***************************************************************************)
(* C23: the nested run that the command-line key enters ends only by the   *)
(* Exit the CommandLine scene answers to Confirm: when the nested run is   *)
(* past its loop, and when Command(string) is delivered to the scene of    *)
(* the outer run, the step before was the update of the nested run that    *)
(* answered Exit. No other key and no engine event ends it.                *)
(***************************************************************************)
C23_ByExit ==
    /\ last.op = "Event"
    /\ last.tr = Exit
    /\ last.frame = Len(frames)

C23_EndsByExit == Len(frames) >= 2 /\ Top.pc = "return" => C23_ByExit

C23_CommandAfterExit == last'.op = "Command" => C23_ByExit

C23_NestedEndsOnlyByExit == [][C23_EndsByExit /\ C23_CommandAfterExit]_vars

\* the events the GameWorld screen has no mapping for: a key that is not
\* Escape, i, c or a movement key, and a command that is not ls
MappedChars == {"i", "c", "k", "j", "h", "l", "y", "u", "b", "n"}
UnmappedEvents ==
    {KeyEvent(k) : k \in {q \in Keys : /\ KeyClass(q) = "key"
                                       /\ q.code # "Escape"
                                       /\ ~(q.code = "Char" /\ q.printable \in MappedChars)}}
    \cup {Command(c) : c \in {<<>>, <<"s">>, <<"l">>, <<"s", "l">>}}

\* what the claim lists of a game
Listed(g) ==
    [objects |-> [i \in 1..Len(g.objects) |->
                    [uid |-> g.objects[i].uid, loc |-> g.objects[i].loc,
                     fighter |-> g.objects[i].fighter, ai |-> g.objects[i].ai]],
     inventory |-> g.inventory, turn |-> g.turn, turns |-> g.turns,
     messages |-> g.messages]

(***************************************************************************)
(* C24: an event the GameWorld screen has no mapping for is answered with  *)
(* Continue, which puts the scene back on the stack, and reaches the game  *)
(* as no update or as Game::update(Nothing); the calls of that update      *)
(* leave the location, health and Ai of every entity, the inventory, the   *)
(* turn counter, the history and the message log as they were.             *)
(***************************************************************************)
C24_Continue ==
    \A e \in UnmappedEvents :
        LET u == ScreenUpdate(ScreenInterpret(e))
        IN  /\ u.tr = Continue
            /\ \A k \in 1..Len(u.updates) : u.updates[k] = Nothing
            /\ ApplyTransition(<<>>, GenericScene(1, 0), u.tr) = <<GenericScene(1, 0)>>

C24_NothingUpdate ==
    \/ pc = "idle" /\ pc' # "idle" /\ cur'.action = Nothing
    \/ pc # "idle" /\ cur.action = Nothing

C24_InvalidInputNoOp ==
    [][C24_Continue /\ (C24_NothingUpdate => Listed(game') = Listed(game))]_vars

(***************************************************************************)
(* dungeon.rs: map generation.  SpecGen runs make_map one iteration of its *)
(* loop at a time; game holds the objects and the map under construction,  *)
(* cur the rooms accepted so far, the iterations left and the arguments.   *)
(***************************************************************************)
GenWidth == 7               \* map_dimension of the generated maps
GenHeight == 6
GenCells == (0..(GenWidth - 1)) \X (0..(GenHeight - 1))

\* d100(), at its ends and either side of the species thresholds
SpeciesRolls == {1, 49, 50, 79, 80, 100}

\* Object::troll
ObjectTroll(uid, loc) ==
    [ObjectNew(uid) EXCEPT !.loc = loc, !.name = "troll", !.blocks = TRUE, !.alive = TRUE,
        !.ai = AiBasic, !.movement = Movement(80),
        !.fighter = Fighter(16, 16, 1, 4, "Monster", 50),
        !.noise = Noise("roar", "growl")]

\* Object::ogre
ObjectOgre(uid, loc) ==
    [ObjectNew(uid) EXCEPT !.loc = loc, !.name = "ogre", !.blocks = TRUE, !.alive = TRUE,
        !.ai = AiBasic, !.movement = Movement(70),
        !.fighter = Fighter(25, 25, 2, 8, "Monster", 20),
        !.noise = Noise("bellow", "burp")]

\* Rect::new
RectNew(x, y, w, h) == [x1 |-> x, y1 |-> y, x2 |-> x + w, y2 |-> y + h]

CenterCorner(r) == <<r.x1, r.y1>>
\* Rect::center
Center(r) == <<(r.x1 + r.x2) \div 2, (r.y1 + r.y2) \div 2>>

IntersectsStrictly(a, b) == a.x1 < b.x2 /\ a.x2 > b.x1 /\ a.y1 < b.y2 /\ a.y2 > b.y1
\* Rect::intersects_with
IntersectsWith(a, b) == a.x1 <= b.x2 /\ a.x2 >= b.x1 /\ a.y1 <= b.y2 /\ a.y2 >= b.y1

\* create_room
CreateRoom(room, map) ==
    [c \in DOMAIN map |->
        IF c[1] \in (room.x1 + 1)..(room.x2 - 1) /\ c[2] \in (room.y1 + 1)..(room.y2 - 1)
        THEN TileEmpty ELSE map[c]]

\* create_h_tunnel
CreateHTunnel(x1, x2, y, map) ==
    [c \in DOMAIN map |->
        IF c[2] = y /\ c[1] \in Min(x1, x2)..Max(x1, x2) THEN TileEmpty ELSE map[c]]

\* create_v_tunnel
CreateVTunnel(y1, y2, x, map) ==
    [c \in DOMAIN map |->
        IF c[1] = x /\ c[2] \in Min(y1, y2)..Max(y1, y2) THEN TileEmpty ELSE map[c]]

\* loc_in_room: the locations it can draw
LocInRoom(room) == ((room.x1 + 1)..(room.x2 - 1)) \X ((room.y1 + 1)..(room.y2 - 1))

CreateMonsterOrcAtFifty(uid, loc, roll) ==
    IF roll <= 50 THEN ObjectOrc(uid, loc, 10)
    ELSE IF roll < 80 THEN ObjectTroll(uid, loc)
    ELSE ObjectOgre(uid, loc)
\* create_monster, for the location and the roll it drew
CreateMonster(uid, loc, roll) ==
    IF roll < 50 THEN ObjectOrc(uid, loc, 10)
    ELSE IF roll < 80 THEN ObjectTroll(uid, loc)
    ELSE ObjectOgre(uid, loc)

\* create_item, for the location and the roll it drew
CreateItem(uid, loc, roll) ==
    IF roll < 50 THEN ObjectItem(uid, loc, "Heal", "healing potion")
    ELSE ObjectItem(uid, loc, "Lightning", "lightning bolt")

\* place_objects: the collections it can leave, for n monsters and k items
\* still to create
RECURSIVE PlaceObjects(_, _, _, _)
PlaceObjects(room, objects, n, k) ==
    IF n > 0 THEN
        UNION {PlaceObjects(room,
                    LET monster == CreateMonster(Len(objects) + 1, loc, roll)
                    IN  IF ~ObjectBlocks(monster.loc, objects)
                        THEN Append(objects, monster) ELSE objects,
                    n - 1, k) : loc \in LocInRoom(room), roll \in SpeciesRolls}
    ELSE IF k > 0 THEN
        UNION {PlaceObjects(room,
                    Append(objects, CreateItem(Len(objects) + 1, loc, roll)),
                    0, k - 1) : loc \in LocInRoom(room), roll \in SpeciesRolls}
    ELSE {objects}

\* the arguments make_map is called with
GenCalls ==
    {[room_dimensions |-> <<2, 3>>, max_rooms |-> n, max_room_monsters |-> 1,
      max_room_items |-> 1] : n \in 1..2}
    \cup {[room_dimensions |-> <<2, 2>>, max_rooms |-> 3, max_room_monsters |-> 2,
           max_room_items |-> 0]}

\* make_map up to its loop, called from Game::new with the player alone
GenInit ==
    /\ \E call \in GenCalls :
        cur = [call |-> call, rooms |-> <<>>, left |-> call.max_rooms]
    /\ game = [objects |-> <<ObjectPlayer(1, <<0, 0>>, 30)>>,
               map |-> [c \in GenCells |-> TileWall]]
    /\ pc = "make_map"
    /\ ai_turns = <<>>
    /\ batch = <<>>
    /\ left_view = {}

\* one iteration of the loop of make_map
MakeRoom ==
    /\ pc = "make_map"
    /\ cur.left > 0
    /\ \E w \in cur.call.room_dimensions[1]..cur.call.room_dimensions[2],
          h \in cur.call.room_dimensions[1]..cur.call.room_dimensions[2] :
       \E x \in 0..(GenWidth - w - 1), y \in 0..(GenHeight - h - 1) :
        LET room == RectNew(x, y, w, h)
            rooms == cur.rooms
            intersects == \E i \in 1..Len(rooms) : IntersectsWith(room, rooms[i])
            map1 == CreateRoom(room, game.map)
            new == Center(room)
        IN  IF intersects
            THEN /\ cur' = [cur EXCEPT !.left = @ - 1]
                 /\ UNCHANGED game
            ELSE /\ cur' = [cur EXCEPT !.left = @ - 1, !.rooms = Append(@, room)]
                 /\ IF rooms = <<>>
                    THEN game' = [game EXCEPT !.map = map1,
                                              !.objects[PLAYER].loc = new]
                    ELSE \E n \in 0..cur.call.max_room_monsters,
                            k \in 0..cur.call.max_room_items :
                         \E objects \in PlaceObjects(room, game.objects, n, k) :
                         \E coin \in BOOLEAN :
                            LET prev == Center(rooms[Len(rooms)])
                            IN  game' = [game EXCEPT
                                    !.objects = objects,
                                    !.map = IF coin
                                        THEN CreateVTunnel(prev[2], new[2], new[1],
                                                CreateHTunnel(prev[1], new[1], prev[2], map1))
                                        ELSE CreateHTunnel(prev[1], new[1], new[2],
                                                CreateVTunnel(prev[2], new[2], prev[1], map1))]
    /\ UNCHANGED <<pc, ai_turns, batch, left_view>>

InitGen == EngineIdle /\ PdaIdle /\ GenInit

NextGen == MakeRoom /\ UNCHANGED engineVars /\ UNCHANGED pdaVars

SpecGen == InitGen /\ [][NextGen]_vars

\* make_map has returned
Made == pc = "make_map" /\ cur.left = 0
\* the interior cells of a room
Interior(r) == {c \in GenCells : r.x1 < c[1] /\ c[1] < r.x2 /\ r.y1 < c[2] /\ c[2] < r.y2}

(***************************************************************************)
(* C25: the rooms make_map accepted never overlap or touch: for any two of *)
(* them the inclusive-edge test is false; and every interior cell of every *)
(* accepted room is unblocked in the returned map.                         *)
(***************************************************************************)
C25_Apart ==
    \A i, j \in 1..Len(cur.rooms) :
        i # j =>
            LET r == cur.rooms[i]
                s == cur.rooms[j]
            IN  ~(r.x1 <= s.x2 /\ r.x2 >= s.x1 /\ r.y1 <= s.y2 /\ r.y2 >= s.y1)

C25_InteriorOpen ==
    \A i \in 1..Len(cur.rooms) : \A c \in Interior(cur.rooms[i]) : ~game.map[c].blocked

C25_RoomsApart == pc = "make_map" => C25_Apart /\ C25_InteriorOpen

C25_Witness == Made /\ Len(cur.rooms) = 3

(***************************************************************************)
(* C26: once make_map has returned, the player stands at the centre of the *)
(* first accepted room and no monster or item lies in the first room; when *)
(* max_rooms is 1 every unblocked cell is an interior cell of the one room *)
(* (no tunnel was carved) and the player is the only entity.               *)
(***************************************************************************)
C26_PlayerAtCentre ==
    LET first == cur.rooms[1]
    IN  game.objects[PLAYER].loc =
            <<(first.x1 + first.x2) \div 2, (first.y1 + first.y2) \div 2>>

C26_FirstRoomEmpty ==
    LET first == cur.rooms[1]
    IN  \A i \in 1..Len(game.objects) :
            i # PLAYER =>
                ~(/\ first.x1 <= game.objects[i].loc[1]
                  /\ game.objects[i].loc[1] <= first.x2
                  /\ first.y1 <= game.objects[i].loc[2]
                  /\ game.objects[i].loc[2] <= first.y2)

C26_OneRoom ==
    /\ Len(cur.rooms) = 1
    /\ \A c \in GenCells : ~game.map[c].blocked => c \in Interior(cur.rooms[1])
    /\ Len(game.objects) = 1

C26_FirstRoom ==
    Made /\ cur.call.max_rooms >= 1 =>
        /\ C26_PlayerAtCentre
        /\ C26_FirstRoomEmpty
        /\ cur.call.max_rooms = 1 => C26_OneRoom

C26_Witness ==
    /\ Made
    /\ Len(cur.rooms) = 2
    /\ \E i, j \in 2..Len(game.objects) :
        game.objects[i].fighter.some /\ game.objects[j].item # "None"

\* the species of a created monster or item
Species(object) == object.name

(***************************************************************************)
(* C27: over a d100 roll in 1..100, create_monster makes an orc when       *)
(* roll < 50, a troll when 50 <= roll < 80 and an ogre otherwise;          *)
(* create_item makes a healing potion when roll < 50 and a lightning       *)
(* scroll otherwise; every roll gives exactly one species.  The objects    *)
(* make_map has placed are all of these species.                           *)
(***************************************************************************)
C27_Monster ==
    \A roll \in 1..100 : \A loc \in GenCells :
        LET m == CreateMonster(2, loc, roll)
        IN  /\ m.loc = loc
            /\ m.fighter.some /\ m.ai = AiBasic /\ m.item = "None"
            /\ roll < 50 => m = ObjectOrc(2, loc, 10)
            /\ 50 <= roll /\ roll < 80 => m = ObjectTroll(2, loc)
            /\ roll >= 80 => m = ObjectOgre(2, loc)
            /\ Cardinality({n \in {"orc", "troll", "ogre"} : Species(m) = n}) = 1

C27_Item ==
    \A roll \in 1..100 : \A loc \in GenCells :
        LET i == CreateItem(2, loc, roll)
        IN  /\ i.loc = loc
            /\ ~i.fighter.some /\ i.ai = <<>>
            /\ roll < 50 => i.item = "Heal" /\ Species(i) = "healing potion"
            /\ roll >= 50 => i.item = "Lightning" /\ Species(i) = "lightning bolt"
            /\ Cardinality({n \in {"healing potion", "lightning bolt"} : Species(i) = n}) = 1

C27_Placed ==
    \A k \in 2..Len(game.objects) :
        LET o == game.objects[k]
        IN  \/ \E roll \in 1..100 : o = CreateMonster(k, o.loc, roll)
            \/ \E roll \in 1..100 : o = CreateItem(k, o.loc, roll)

C27_Species == pc = "make_map" => C27_Monster /\ C27_Item /\ C27_Placed

C27_Witness ==
    /\ Made
    /\ \E i, j \in 2..Len(game.objects) :
        Species(game.objects[i]) = "troll" /\ Species(game.objects[j]) = "lightning bolt"

(***************************************************************************)
(* C28: the message log is append-only: every step of Game::update (play,  *)
(* refresh, the AI turns, rollover) leaves the entries the log held, in    *)
(* their order, and adds only at the end: the log before the step is a     *)
(* prefix of the log after it.                                             *)
(***************************************************************************)
C28_AppendOnly == [][IsPrefix(game.messages, game'.messages)]_vars

C28_Witness ==
    /\ pc = "idle"
    /\ game.turn = 2
    /\ Len(game.messages) >= 6
    /\ \E k \in 1..Len(game.messages) : game.messages[k].text = "dies."

(***************************************************************************)
(* rostlaube/src/geometry.rs: translate.  SpecView calls it on bounded     *)
(* dimensions, locations and focus points; cur holds the call and what it  *)
(* returned.                                                               *)
(***************************************************************************)
None == [some |-> FALSE, loc |-> <<0, 0>>]
Some(loc) == [some |-> TRUE, loc |-> loc]

TranslateClipsToTarget(source, target, loc, focus) ==
    LET center_x == target[1] \div 2 + 1
        center_y == target[2] \div 2 + 1
        view_x == center_x + (loc[1] - focus[1])
        view_y == center_y + (loc[2] - focus[2])
    IN  IF view_x >= 0 /\ view_x < target[1] /\ view_y >= 0 /\ view_y < target[2]
        THEN Some(<<view_x, view_y>>)
        ELSE None
\* translate; the dimensions are never negative, so / is \div
Translate(source, target, loc, focus) ==
    LET center_x == target[1] \div 2 + 1
        center_y == target[2] \div 2 + 1
        rel_x == loc[1] - focus[1]
        rel_y == loc[2] - focus[2]
        view_x == center_x + rel_x
        view_y == center_y + rel_y
    IN  IF view_x >= 0 /\ view_x < source[1] /\ view_y >= 0 /\ view_y < source[2]
        THEN Some(<<view_x, view_y>>)
        ELSE None

\* the map dimensions and the console dimensions of the calls
ViewSources == {<<2, 2>>, <<5, 4>>, <<8, 6>>}
ViewTargets == {<<0, 0>>, <<4, 4>>, <<5, 3>>, <<9, 7>>}

ViewInit ==
    /\ \E source \in ViewSources, target \in ViewTargets :
        cur = [source |-> source, target |-> target, loc |-> <<0, 0>>,
               focus |-> <<0, 0>>, result |-> None]
    /\ pc = "view"
    /\ game = <<>>
    /\ ai_turns = <<>>
    /\ batch = <<>>
    /\ left_view = {}

\* one call of translate from render_game_world: a cell of the map, with the
\* player somewhere on the map as the focus
CallTranslate ==
    /\ pc = "view"
    /\ \E loc \in (0..(cur.source[1] - 1)) \X (0..(cur.source[2] - 1)),
          focus \in (0..(cur.source[1] - 1)) \X (0..(cur.source[2] - 1)) :
        cur' = [cur EXCEPT !.loc = loc, !.focus = focus,
                           !.result = Translate(cur.source, cur.target, loc, focus)]
    /\ pc' = "translated"
    /\ UNCHANGED <<game, ai_turns, batch, left_view>>

InitView == EngineIdle /\ PdaIdle /\ ViewInit

NextView == CallTranslate /\ UNCHANGED engineVars /\ UNCHANGED pdaVars

SpecView == InitView /\ [][NextView]_vars

\* the point the claim names for the call, and whether it lies on the source
ViewPoint ==
    <<cur.target[1] \div 2 + 1 + (cur.loc[1] - cur.focus[1]),
      cur.target[2] \div 2 + 1 + (cur.loc[2] - cur.focus[2])>>
OnSource(p) == 0 <= p[1] /\ p[1] < cur.source[1] /\ 0 <= p[2] /\ p[2] < cur.source[2]
ViewCentre == <<cur.target[1] \div 2 + 1, cur.target[2] \div 2 + 1>>

(***************************************************************************)
(* C29: translate(source, target, loc, focus) returns                      *)
(* Some(target_w/2 + 1 + (x - fx), target_h/2 + 1 + (y - fy)) exactly when *)
(* that point lies in [0, source_w) x [0, source_h) and None otherwise.    *)
(* As stated, the focus itself always maps to the centre point             *)
(* (target_w/2 + 1, target_h/2 + 1); as the code has it, the focus maps to *)
(* the centre point when that lies on the source and to None when not.     *)
(***************************************************************************)
C29_SomeExactly ==
    /\ OnSource(ViewPoint) => cur.result = Some(ViewPoint)
    /\ ~OnSource(ViewPoint) => cur.result = None
    /\ cur.result.some <=> OnSource(ViewPoint)

C29_FocusMapsToCentre ==
    pc = "translated" =>
        /\ C29_SomeExactly
        /\ cur.loc = cur.focus => cur.result = Some(ViewCentre)

C29_Translate ==
    pc = "translated" =>
        /\ C29_SomeExactly
        /\ cur.loc = cur.focus /\ OnSource(ViewCentre) => cur.result = Some(ViewCentre)
        /\ cur.loc = cur.focus /\ ~OnSource(ViewCentre) => cur.result = None

C29_Witness ==
    /\ pc = "translated"
    /\ cur.loc = cur.focus
    /\ cur.result = Some(ViewCentre)
    /\ cur.target = <<9, 7>>

\* the entities whose policy is Basic when Game::ai_turns is called
IsBasic(g, e) == g.objects[e].ai # <<>> /\ g.objects[e].ai[1].tag = "Basic"
\* the actions of entity e in a batch, in their order
TurnOf(actions, e) == SelectSeq(actions, LAMBDA a : a.id = e)
\* the square of the distance of entity e to the player
FromPlayer2(g, e) ==
    (g.objects[e].loc[1] - g.objects[PLAYER].loc[1]) * (g.objects[e].loc[1] - g.objects[PLAYER].loc[1])
    + (g.objects[e].loc[2] - g.objects[PLAYER].loc[2]) * (g.objects[e].loc[2] - g.objects[PLAYER].loc[2])
\* Move(e, (sign dx, sign dy)) toward the player
Approach(g, e) ==
    [type |-> "Move", id |-> e, target |-> 0,
     dir |-> <<Sign(g.objects[PLAYER].loc[1] - g.objects[e].loc[1]),
               Sign(g.objects[PLAYER].loc[2] - g.objects[e].loc[2])>>]

(***************************************************************************)
(* C30: the Basic policy of entity e in a call of Game::ai_turns.  When    *)
(* the cell of e is not in the player's field of view, e gets no action    *)
(* and becomes Idle.  When it is in view and the distance to the player is *)
(* at least 2, the actions of e end with exactly one Move(e, (sign dx,     *)
(* sign dy)) toward the player, with at most one Bark(e) before it, and e  *)
(* stays Basic.  When it is in view, nearer than 2 and the player is       *)
(* alive, the actions of e are exactly Attack(e, PLAYER) and e stays Basic.*)
(***************************************************************************)
C30_Hidden(e) ==
    ~Visible(game.fov, game.objects[e].loc) =>
        TurnOf(ai_turns', e) = <<>> /\ game'.objects[e].ai = AiIdle

C30_Far(e) ==
    Visible(game.fov, game.objects[e].loc) /\ FromPlayer2(game, e) >= 4 =>
        /\ TurnOf(ai_turns', e) \in {<<Approach(game, e)>>,
                                     <<Bark(e), Approach(game, e)>>}
        /\ game'.objects[e].ai = AiBasic

C30_Near(e) ==
    /\ Visible(game.fov, game.objects[e].loc)
    /\ FromPlayer2(game, e) < 4
    /\ game.objects[PLAYER].alive
    => /\ TurnOf(ai_turns', e) = <<AttackAct(e, PLAYER)>>
       /\ game'.objects[e].ai = AiBasic

C30_BasicPolicy ==
    [][pc = "ai_turns" =>
        \A e \in (PLAYER + 1)..Len(game.objects) :
            IsBasic(game, e) => C30_Hidden(e) /\ C30_Far(e) /\ C30_Near(e)]_vars

C30_Witness ==
    /\ pc = "play"
    /\ \E e \in (PLAYER + 1)..Len(game.objects) :
        /\ Len(TurnOf(ai_turns, e)) = 2
        /\ TurnOf(ai_turns, e)[1] = Bark(e)
        /\ TurnOf(ai_turns, e)[2].type = "Move"
        /\ IsBasic(game, e)

\* the entities whose policy is Idle when Game::ai_turns is called
IsIdle(g, e) == g.objects[e].ai # <<>> /\ g.objects[e].ai[1].tag = "Idle"

(***************************************************************************)
(* C31: the Idle policy of entity e in a call of Game::ai_turns.  When the *)
(* cell of e is in the player's field of view, e becomes Basic and gets no *)
(* action in that call: it neither moves nor attacks in the tick in which  *)
(* it switches.  When the cell is not in view, e stays Idle and its        *)
(* actions are nothing or a single Mumble(e).                              *)
(***************************************************************************)
C31_Wakes(e) ==
    Visible(game.fov, game.objects[e].loc) =>
        TurnOf(ai_turns', e) = <<>> /\ game'.objects[e].ai = AiBasic

C31_Sleeps(e) ==
    ~Visible(game.fov, game.objects[e].loc) =>
        /\ TurnOf(ai_turns', e) \in {<<>>, <<Mumble(e)>>}
        /\ game'.objects[e].ai = AiIdle

C31_IdlePolicy ==
    [][pc = "ai_turns" =>
        \A e \in (PLAYER + 1)..Len(game.objects) :
            IsIdle(game, e) => C31_Wakes(e) /\ C31_Sleeps(e)]_vars

\* an entity that was Idle and in view has switched to Basic, next to the
\* player, while the batch holds nothing of it
C31_Witness ==
    /\ pc \in {"play", "rollover"}
    /\ game.turn = 1
    /\ \E e \in (PLAYER + 1)..Len(game.objects) :
        /\ IsBasic(game, e)
        /\ TurnOf(ai_turns, e) = <<>>
        /\ Visible(game.fov, game.objects[e].loc)
        /\ game.objects[PLAYER].alive

(***************************************************************************)
(* C32: the player batch of a history entry.  As stated, the batch the     *)
(* rollover records holds exactly the one action of the Game::update call  *)
(* that rolls over.  As the code has it, the batch holds every action      *)
(* submitted since the previous rollover, in the order submitted: the      *)
(* actions of earlier calls that consumed no turn, then the action of this *)
(* call, which consumed one; the rollover empties the pending batch.       *)
(***************************************************************************)
C32_Submits ==
    pc = "idle" /\ pc' # "idle" =>
        game'.player_turn = Append(game.player_turn, cur'.action)

C32_Pending ==
    pc \notin {"idle", "rollover"} => game'.player_turn = game.player_turn

C32_Records ==
    pc = "rollover" =>
        /\ Last(game'.turns)[1] = game.player_turn
        /\ Last(game.player_turn) = cur.action
        /\ TookTurn(cur.action)
        /\ \A k \in 1..(Len(game.player_turn) - 1) : ~TookTurn(game.player_turn[k])
        /\ game'.player_turn = <<>>

C32_OnlyThisCycle ==
    [][pc = "rollover" => Last(game'.turns)[1] = <<cur.action>>]_vars

C32_BatchSinceRollover == [][C32_Submits /\ C32_Pending /\ C32_Records]_vars

C32_Witness ==
    /\ pc = "idle"
    /\ game.turn >= 1
    /\ game.player_turn = <<>>
    /\ Len(Last(game.turns)[1]) = 2
    /\ Last(game.turns)[1][1].type \in {"Nothing", "UseItem"}
    /\ TookTurn(Last(game.turns)[1][2])

\* the monsters of g whose health is spent and whose death has not been handled
Slain(g) ==
    {e \in (PLAYER + 1)..Len(g.objects) :
        g.objects[e].fighter.some /\ g.objects[e].fighter.health <= 0}
\* the monsters of g whose death has been handled
Remains(g) ==
    {e \in (PLAYER + 1)..Len(g.objects) : g.objects[e].name = "Remains"}

(***************************************************************************)
(* C33: a monster whose health the player's action (attack or lightning)   *)
(* brought to 0 or below gets no AI action in that tick or in a later one. *)
(* The refresh that follows the player's action removes its Fighter and    *)
(* its Ai before Game::ai_turns computes the batch; from then on it does   *)
(* not block movement and is no target of Attack, Lightning or Confusion.  *)
(***************************************************************************)
\* the refresh handles every spent monster
C33_RefreshRemoves ==
    pc = "refresh" =>
        \A e \in Slain(game) :
            /\ ~game'.objects[e].fighter.some
            /\ game'.objects[e].ai = <<>>
            /\ ~game'.objects[e].blocks
            /\ e \in Remains(game')

\* no spent monster is left when the batch is computed, and the batch holds
\* nothing of the remains
C33_BatchSkips ==
    pc = "ai_turns" =>
        /\ Slain(game) = {}
        /\ \A e \in Remains(game) : TurnOf(ai_turns', e) = <<>>

\* remains stay as they are, at their index, for the rest of the update
C33_Stays ==
    pc # "idle" => \A e \in Remains(game) : game'.objects[e] = game.objects[e]

\* remains are no fighter, have no Ai, do not block, and nothing the player
\* can ask for targets them
C33_NoTarget ==
    \A e \in Remains(game) :
        /\ ~game.objects[e].fighter.some
        /\ game.objects[e].ai = <<>>
        /\ ~game.objects[e].blocks
        /\ ~ObjectBlocks(game.objects[e].loc, <<game.objects[e]>>)
        /\ \A dir \in AllDirs :
            AttackAct(PLAYER, e) \notin MoveOrAttack(PLAYER, dir, game.map, game.objects)
        /\ ClosestFighter(PLAYER, game.objects, LIGHTNING_RANGE) # e
        /\ ClosestFighter(PLAYER, game.objects, CONFUSE_RANGE) # e
        /\ pc \in {"play", "rollover"} => TurnOf(ai_turns, e) = <<>>

C33_SlainMonster ==
    [][/\ C33_RefreshRemoves
       /\ C33_BatchSkips
       /\ C33_Stays
       /\ pc \in {"idle", "refresh", "ai_turns", "play", "rollover"} =>
            C33_NoTarget /\ C33_NoTarget']_vars

\* the player's attack has spent a monster and the refresh has handled it
C33_Witness ==
    /\ pc = "ai_turns"
    /\ cur.action.type = "Attack"
    /\ cur.before.objects[cur.action.target].fighter.some
    /\ cur.action.target \in Remains(game)

\* the Chebyshev distance of two cells
Chebyshev(a, b) == Max(Abs(a[1] - b[1]), Abs(a[2] - b[2]))

(***************************************************************************)
(* C34: every Attack of the AI batch is valid when play resolves it: the   *)
(* attacker is still alive, has a Fighter and stands within one cell of    *)
(* the player on both axes (Chebyshev distance 1), although the whole      *)
(* batch was computed before any of it was resolved; and every Attack the  *)
(* AI emits has the player as its target.                                  *)
(***************************************************************************)
C34_TargetsPlayer ==
    pc = "ai_turns" =>
        \A k \in 1..Len(ai_turns') :
            ai_turns'[k].type = "Attack" =>
                ai_turns'[k].target = PLAYER /\ ai_turns'[k].id # PLAYER

C34_ValidWhenResolved ==
    pc = "play" /\ Head(batch).type = "Attack" =>
        LET e == Head(batch).id
        IN  /\ Head(batch).target = PLAYER
            /\ game.objects[e].alive
            /\ game.objects[e].fighter.some
            /\ Chebyshev(game.objects[e].loc, game.objects[PLAYER].loc) = 1

C34_AttackValid == [][C34_TargetsPlayer /\ C34_ValidWhenResolved]_vars

\* an Attack was resolved after another entity's action of the same batch
C34_Witness ==
    /\ pc \in {"play", "rollover"}
    /\ \E k \in 2..Len(cur.resolved) :
        /\ cur.resolved[k].type = "Attack"
        /\ cur.resolved[k].id # PLAYER
        /\ cur.resolved[k - 1].id # cur.resolved[k].id
        /\ cur.resolved[k - 1].id # PLAYER

\* the outermost ring of the cells of a map
Ring(map) ==
    {c \in DOMAIN map :
        \/ \A d \in DOMAIN map : c[1] <= d[1]
        \/ \A d \in DOMAIN map : c[1] >= d[1]
        \/ \A d \in DOMAIN map : c[2] <= d[2]
        \/ \A d \in DOMAIN map : c[2] >= d[2]}

\* a world is there: make_map has returned, or the game is being played
WorldThere ==
    \/ Made /\ cur.call.max_rooms >= 1
    \/ pc \in {"idle", "refresh", "ai_turns", "play", "rollover"} /\ game # <<>>

(***************************************************************************)
(* C35: in a generated world, and after any sequence of Game::update calls *)
(* on it, no two blocking entities share a cell and no blocking entity     *)
(* stands on a blocked tile; the outermost ring of the map is wall, so     *)
(* every entity is located inside the map, off the ring unless it does not *)
(* block.                                                                  *)
(***************************************************************************)
C35_Apart ==
    \A i, j \in 1..Len(game.objects) :
        i # j /\ game.objects[i].blocks /\ game.objects[j].blocks =>
            game.objects[i].loc # game.objects[j].loc

C35_OnFloor ==
    \A i \in 1..Len(game.objects) :
        /\ game.objects[i].loc \in DOMAIN game.map
        /\ game.objects[i].blocks =>
            /\ ~game.map[game.objects[i].loc].blocked
            /\ game.objects[i].loc \notin Ring(game.map)

C35_RingIsWall == \A c \in Ring(game.map) : game.map[c].blocked

C35_Collision == WorldThere => C35_Apart /\ C35_OnFloor /\ C35_RingIsWall

\* two turns on: the player has left its cell, a monster has left its own,
\* and a move was refused
C35_Witness ==
    /\ pc = "idle"
    /\ game.turn = 2
    /\ Len(game.objects) = 3
    /\ game.objects[PLAYER].loc # <<2, 1>>
    /\ game.objects[2].blocks /\ game.objects[2].loc # <<1, 3>>
    /\ \E k \in 1..Len(game.messages) : game.messages[k].text = "The way is blocked!"

(***************************************************************************)
(* C36: in every reachable state the health of every Fighter is at most    *)
(* its max_health.  Health rises only where Fighter::heal is called, in    *)
(* the use of an item and in the regeneration of a rollover, and heal      *)
(* stops at max_health; no other step raises the health of any entity.     *)
(***************************************************************************)
C36_Bounded ==
    game # <<>> =>
        \A i \in 1..Len(game.objects) :
            game.objects[i].fighter.some =>
                game.objects[i].fighter.health <= game.objects[i].fighter.max_health

C36_RaisedOnlyByHeal ==
    \A i \in 1..Len(game.objects), j \in 1..Len(game'.objects) :
        /\ game.objects[i].uid = game'.objects[j].uid
        /\ game.objects[i].fighter.some /\ game'.objects[j].fighter.some
        /\ game'.objects[j].fighter.health > game.objects[i].fighter.health
        => /\ \/ pc = "rollover"
              \/ pc \in {"idle", "ready"} /\ cur'.action.type = "UseItem"
           /\ game'.objects[j].fighter.max_health = game.objects[i].fighter.max_health
           /\ game'.objects[j].fighter.health <= game.objects[i].fighter.max_health

C36_HealthBound == [][C36_Bounded /\ C36_Bounded' /\ C36_RaisedOnlyByHeal]_vars

\* the player started at health 1 and has regenerated in both rollovers
C36_Witness ==
    /\ pc = "idle"
    /\ game.turn = 2
    /\ game.objects[PLAYER].alive
    /\ game.objects[PLAYER].fighter.health = 3
    /\ \E e \in (PLAYER + 1)..Len(game.objects) :
        /\ game.objects[e].fighter.some
        /\ game.objects[e].fighter.health = game.objects[e].fighter.max_health

(***************************************************************************)
(* lib.rs run(): the main-menu run of the engine, then, when it returned   *)
(* NewGame settings, the game-world run.  SpecRun keeps the engine in      *)
(* frames as Spec does; pc is the position in run() and cur holds the     *)
(* last event a scene of the main-menu run was given and the settings      *)
(* that run returned.                                                      *)
(***************************************************************************)
\* scenes::main_menu / scenes::game_world and the screens GameWorld opens
MainMenu(player_name) == [kind |-> "MainMenu", id |-> 0, st |-> player_name]
GameWorld == [kind |-> "GameWorld", id |-> 0, st |-> 0]

\* no event yet
NoEvent == [type |-> "Nothing", key |-> Key("None", "", FALSE, FALSE, FALSE), cmd |-> <<>>]

\* the event is noted while the main-menu run is the run that receives it
Given(event, frame) ==
    IF pc = "main_menu" /\ frame = 1 THEN [cur EXCEPT !.event = event] ELSE cur

\* Option<GameSettings>: None and Some(NewGame { player_name })
NoSettings == [some |-> FALSE, player_name |-> <<>>]
NewGame(player_name) == [some |-> TRUE, player_name |-> player_name]

\* settings::Screen::interpret
MenuInterpret(event) ==
    IF event.type # "KeyEvent" THEN [type |-> "InvalidKey", text |-> ""]
    ELSE CASE event.key.code = "Escape" -> [type |-> "Cancel", text |-> ""]
           [] event.key.code = "Enter" -> [type |-> "StartGame", text |-> ""]
           [] event.key.code = "Backspace" -> [type |-> "DeleteChar", text |-> ""]
           [] event.key.code = "Spacebar" ->
                [type |-> "ReadChar", text |-> event.key.printable]
           [] event.key.code = "Char" ->
                [type |-> "ReadChar",
                 text |-> IF event.key.shift THEN ToUpper(event.key.printable)
                          ELSE event.key.printable]
           [] OTHER -> [type |-> "InvalidKey", text |-> ""]

\* settings::Screen::update with Cancel storing the settings as StartGame does
MenuUpdateAlwaysStarts(scene, action, settings) ==
    CASE action.type = "StartGame" ->
            [scene |-> scene, world |-> NewGame(scene.st), tr |-> Exit]
      [] action.type = "DeleteChar" ->
            [scene |-> MainMenu(Front(scene.st)), world |-> settings, tr |-> Continue]
      [] action.type = "ReadChar" ->
            [scene |-> MainMenu(Append(scene.st, action.text)), world |-> settings,
             tr |-> Continue]
      [] action.type = "Cancel" ->
            [scene |-> scene, world |-> NewGame(scene.st), tr |-> Exit]
      [] OTHER -> [scene |-> scene, world |-> settings, tr |-> Continue]

\* settings::Screen::update
MenuUpdate(scene, action, settings) ==
    CASE action.type = "StartGame" ->
            [scene |-> scene, world |-> NewGame(scene.st), tr |-> Exit]
      [] action.type = "DeleteChar" ->
            [scene |-> MainMenu(Front(scene.st)), world |-> settings, tr |-> Continue]
      [] action.type = "ReadChar" ->
            [scene |-> MainMenu(Append(scene.st, action.text)), world |-> settings,
             tr |-> Continue]
      [] action.type = "Cancel" -> [scene |-> scene, world |-> settings, tr |-> Exit]
      [] OTHER -> [scene |-> scene, world |-> settings, tr |-> Continue]

\* Game::play on a whole turn: the games it can leave
RECURSIVE PlayAll(_, _)
PlayAll(g, turn) ==
    IF turn = <<>> THEN {g}
    ELSE UNION {PlayAll(PlayAction(g, Head(turn), r), Tail(turn)) :
                    r \in RollsFor(g, Head(turn))}

\* Game::update: the games it can leave
GameUpdate(g, action) ==
    LET pushed == [g EXCEPT !.player_turn = Append(@, action)]
        afterRefresh == {Refresh(p) : p \in PlayAll(pushed, <<action>>)}
    IN  IF ~TookTurn(action) THEN afterRefresh
        ELSE UNION {UNION {UNION {
                {Rollover(q, q.player_turn, AiTurns(f, r).actions, regen) :
                    regen \in RegenRolls(q)} :
                q \in PlayAll(AiTurns(f, r).game, AiTurns(f, r).actions)} :
                r \in AiRollsFor(f)} :
                f \in afterRefresh}

\* world::Screen::update with Inventory and Character answering Continue
ScreenOutcomesStay(scene, event, game_world) ==
    IF scene.kind = "GameWorld"
    THEN LET u == ScreenUpdate(ScreenInterpret(event))
         IN  IF u.updates = <<>>
             THEN {[scene |-> scene, world |-> game_world, tr |-> u.tr]}
             ELSE IF \/ Len(game_world.player_turn) >= MaxPlayerTurn
                     \/ TookTurn(u.updates[1]) /\ game_world.turn >= MaxTurns
             THEN {}
             ELSE {[scene |-> scene, world |-> g, tr |-> u.tr] :
                        g \in GameUpdate(game_world, u.updates[1])}
    ELSE {[scene |-> scene, world |-> game_world, tr |-> Continue]}

\* world::Screen::interpret followed by world::Screen::update, for each of
\* the screens; Game::update is not called once its bounds are reached
ScreenOutcomes(scene, event, game_world) ==
    IF scene.kind = "GameWorld"
    THEN LET u == ScreenUpdate(ScreenInterpret(event))
         IN  IF u.updates = <<>>
             THEN {[scene |-> scene, world |-> game_world, tr |-> u.tr]}
             ELSE IF \/ Len(game_world.player_turn) >= MaxPlayerTurn
                     \/ TookTurn(u.updates[1]) /\ game_world.turn >= MaxTurns
             THEN {}
             ELSE {[scene |-> scene, world |-> g, tr |-> u.tr] :
                        g \in GameUpdate(game_world, u.updates[1])}
    ELSE {[scene |-> scene, world |-> game_world, tr |-> Exit]}

\* scene.interpret(&event) followed by scene.update(action, &mut world) for
\* the scenes of run()
RunOutcomes(scene, event, world, depth) ==
    IF scene.kind = "MainMenu"
    THEN IF MenuInterpret(event).type = "ReadChar" /\ Len(scene.st) >= MaxStr
         THEN {}
         ELSE {MenuUpdate(scene, MenuInterpret(event), world)}
    ELSE IF scene.kind \in {"GameWorld", "Inventory", "Character"}
    THEN ScreenOutcomes(scene, event, world)
    ELSE Outcomes(scene, event, world, depth)

\* the keys of the runs of run(): those of Keys, the keys of the two
\* screens GameWorld opens, a second movement key and the space bar
RunKeys ==
    Keys \cup { Key("Char", "i", FALSE, FALSE, FALSE),
                Key("Char", "c", FALSE, FALSE, FALSE),
                Key("Char", "h", FALSE, FALSE, FALSE),
                Key("Spacebar", " ", FALSE, FALSE, FALSE) }

\* the String a player_name holds, read character by character
RECURSIVE NameString(_)
NameString(player_name) ==
    IF player_name = <<>> THEN "" ELSE Head(player_name) \o NameString(Tail(player_name))

\* the games Game::new(&player_name, ..) can make: the player object carries
\* the name
RunStarts(player_name) ==
    {GameNew([Room EXCEPT ![PLAYER].name = NameString(player_name)], <<>>)}

\* run() up to the first iteration of the main-menu run
RunInit ==
    /\ frames = <<Frame(<<MainMenu(<<>>)>>, NoSettings, "check", NoScene, NoSettings, FALSE)>>
    /\ running = TRUE
    /\ window_closed = FALSE
    /\ fullscreen = FALSE
    /\ last = [op |-> "Init", frame |-> 1, tr |-> NoTr]
    /\ resume = NoScene
    /\ pc = "main_menu"
    /\ cur = [event |-> NoEvent, settings |-> NoSettings]
    /\ game = <<>>
    /\ ai_turns = <<>>
    /\ batch = <<>>
    /\ left_view = {}

\* Some(KeyEvent(key)) goes to interpret and update of the scene on top
RunKeyPress ==
    /\ frames # <<>>
    /\ Top.pc = "body"
    /\ Top.scenes # <<>>
    /\ \E k \in RunKeys :
         /\ KeyClass(k) = "key"
         /\ LET scene == Last(Top.scenes)
                below == Front(Top.scenes)
            IN  \E o \in RunOutcomes(scene, KeyEvent(k), Top.world, Len(Top.scenes)) :
                  LET scenes == ApplyTransition(below, o.scene, o.tr)
                  IN  /\ frames' = SetTop([Top EXCEPT !.scenes = scenes,
                                                      !.world = o.world,
                                                      !.mutated = Mutated(Top, o.world),
                                                      !.pc = AfterIteration(scenes)])
                      /\ last' = Step("Event", o.tr)
                      /\ resume' = ResumeAfter(scenes, o.tr)
                      /\ cur' = Given(KeyEvent(k), Len(frames))
    /\ UNCHANGED <<running, window_closed, fullscreen>>

\* a run returns its world: the outermost to run(), a nested one to
\* next_event, which delivers Command(string) to the scene that waited
RunReturn ==
    /\ frames # <<>>
    /\ Top.pc = "return"
    /\ IF Len(frames) = 1
       THEN /\ frames' = SetTop([Top EXCEPT !.pc = "returned"])
            /\ last' = Step("Return", NoTr)
            /\ UNCHANGED <<resume, cur>>
       ELSE LET outer == frames[Len(frames) - 1]
            IN  \E o \in RunOutcomes(outer.held, Command(Top.world), outer.world,
                                     Len(outer.scenes) + 1) :
                  LET scenes == ApplyTransition(outer.scenes, o.scene, o.tr)
                  IN  /\ frames' = [Front(frames) EXCEPT ![Len(frames) - 1] =
                                        Frame(scenes, o.world, AfterIteration(scenes),
                                              NoScene, outer.passed, Mutated(outer, o.world))]
                      /\ last' = [op |-> "Command", frame |-> Len(frames) - 1, tr |-> o.tr]
                      /\ cur' = Given(Command(Top.world), Len(frames) - 1)
                      /\ resume' = IF Len(frames) = 2
                                   THEN IF o.tr.type = "Exit" /\ scenes # <<>>
                                        THEN Last(scenes) ELSE NoScene
                                   ELSE resume
    /\ UNCHANGED <<running, window_closed, fullscreen>>

\* run(): the main-menu run has returned; with NewGame settings Game::new
\* makes a game and the game-world run starts, without them run() is over
StartWorld ==
    /\ pc = "main_menu"
    /\ Len(frames) = 1
    /\ Top.pc = "returned"
    /\ cur' = [cur EXCEPT !.settings = Top.world]
    /\ IF Top.world.some
       THEN /\ \E g \in RunStarts(Top.world.player_name) :
                frames' = <<Frame(<<GameWorld>>, g, "check", NoScene, g, FALSE)>>
            /\ pc' = "game_world"
            /\ UNCHANGED running
            /\ UNCHANGED fullscreen
       ELSE /\ pc' = "done"
            /\ running' = FALSE
            /\ fullscreen' = FALSE
            /\ UNCHANGED frames
    /\ last' = Step("Run", NoTr)
    /\ UNCHANGED <<window_closed, resume, game, ai_turns, batch, left_view>>

\* run(): the game-world run has returned; engine.exit()
EndWorld ==
    /\ pc = "game_world"
    /\ Len(frames) = 1
    /\ Top.pc = "returned"
    /\ pc' = "done"
    /\ running' = FALSE
    /\ fullscreen' = FALSE
    /\ last' = Step("Over", NoTr)
    /\ UNCHANGED <<frames, window_closed, resume, cur, game, ai_turns, batch, left_view>>

RunEngine ==
    /\ pc \in {"main_menu", "game_world"}
    /\ \/ Check /\ UNCHANGED cur
       \/ KeyFullscreen /\ UNCHANGED cur
       \/ KeyExit /\ UNCHANGED cur
       \/ KeyCommandLine /\ UNCHANGED cur
       \/ RunKeyPress
       \/ RunReturn
       \/ CloseWindow /\ UNCHANGED cur
    /\ UNCHANGED <<game, pc, ai_turns, batch, left_view>>

InitRun == PdaIdle /\ RunInit

NextRun == (RunEngine \/ StartWorld \/ EndWorld) /\ UNCHANGED pdaVars

SpecRun == InitRun /\ [][NextRun]_vars

\* the scene stack and the Game of the game-world run
WorldStack == frames[1].scenes
WorldGame == frames[1].world

\* the step delivers an event to a scene of the game-world run: a key to the
\* scene on top, or the Command of a finished command line to the scene that
\* waited for it
C37_Delivers ==
    /\ pc = "game_world"
    /\ last'.op \in {"Event", "Command"}
    /\ last'.frame = 1
    /\ frames[1].pc \in {"body", "wait"}
C37_Receiver == IF Len(frames) = 1 THEN Last(WorldStack) ELSE frames[1].held
C37_Below == IF Len(frames) = 1 THEN Front(WorldStack) ELSE WorldStack

C37_Depth == pc = "game_world" => Len(WorldStack) \in 0..2
C37_Bottom ==
    pc = "game_world" =>
        /\ WorldStack # <<>> => WorldStack[1] = GameWorld
        /\ Len(WorldStack) = 2 => WorldStack[2].kind \in {"Inventory", "Character"}
        /\ frames[1].pc = "wait" /\ WorldStack = <<>> => frames[1].held = GameWorld
C37_MutatedUnderGameWorld ==
    pc = "game_world" /\ pc' = "game_world" /\ WorldGame' # WorldGame =>
        C37_Delivers /\ C37_Receiver = GameWorld
C37_ScreenPops ==
    C37_Delivers /\ C37_Receiver.kind \in {"Inventory", "Character"} =>
        /\ frames'[1].scenes = C37_Below
        /\ C37_Below = <<GameWorld>>
        /\ WorldGame' = WorldGame

\* C37: during the game-world run the scene stack holds 0, 1 or 2 scenes with
\* GameWorld at the bottom; the Game changes only in a step that delivers an
\* event to GameWorld as the top scene; an event delivered to Inventory or
\* Character pops that scene and leaves the Game as it was.
C37_StackShape ==
    [][/\ C37_Depth /\ C37_Depth'
       /\ C37_Bottom /\ C37_Bottom'
       /\ C37_MutatedUnderGameWorld
       /\ C37_ScreenPops]_vars
\* a second screen was opened over a Game that GameWorld had changed, and an
\* event has closed it again
C37_Witness ==
    /\ pc = "game_world"
    /\ last.op = "Event" /\ last.tr = Exit
    /\ WorldStack = <<GameWorld>>
    /\ frames[1].mutated
    /\ resume = GameWorld

\* the step gives an event to the main menu: a key, or the Command of a
\* finished command line
C38_Delivers ==
    /\ pc = "main_menu"
    /\ last'.op \in {"Event", "Command"}
    /\ last'.frame = 1
    /\ frames[1].pc \in {"body", "wait"}
C38_Menu == IF Len(frames) = 1 THEN Last(frames[1].scenes) ELSE frames[1].held
C38_IsKey(code) == cur'.event.type = "KeyEvent" /\ cur'.event.key.code = code
C38_Typed ==
    IF cur'.event.key.shift /\ cur'.event.key.code = "Char"
    THEN ToUpper(cur'.event.key.printable) ELSE cur'.event.key.printable
\* the main-menu run is over
C38_Ended == pc = "main_menu" /\ frames[1].pc \in {"return", "returned"}

\* Enter ends the run with NewGame of the name typed so far; no other event
\* stores settings; the name follows the characters read and deleted
C38_Event ==
    C38_Delivers =>
        /\ C38_Menu.kind = "MainMenu"
        /\ IF C38_IsKey("Enter")
           THEN /\ frames'[1].world = NewGame(C38_Menu.st)
                /\ frames'[1].scenes = <<>>
           ELSE frames'[1].world = NoSettings
        /\ C38_IsKey("Escape") => frames'[1].scenes = <<>>
        /\ C38_IsKey("Backspace") => frames'[1].scenes = <<MainMenu(Front(C38_Menu.st))>>
        /\ C38_IsKey("Char") \/ C38_IsKey("Spacebar") =>
                frames'[1].scenes = <<MainMenu(Append(C38_Menu.st, C38_Typed))>>
        /\ cur'.event.type = "Command" => frames'[1].scenes = <<C38_Menu>>
\* no step other than an event given to the menu touches the settings
C38_OnlyEvents ==
    pc = "main_menu" /\ frames'[1].world # frames[1].world => C38_Delivers \/ pc' # pc
\* the run has returned settings exactly when Enter was the last event given
C38_Returned ==
    /\ C38_Ended =>
        (frames[1].world.some <=>
            cur.event.type = "KeyEvent" /\ cur.event.key.code = "Enter")
    /\ pc = "main_menu" /\ ~C38_Ended => frames[1].world = NoSettings
\* the game-world run starts exactly when settings were returned
C38_Runs ==
    /\ pc = "main_menu" /\ pc' # pc =>
        /\ cur'.settings = frames[1].world
        /\ pc' = "game_world" <=> frames[1].world.some
        /\ pc' = "game_world" => frames'[1].scenes = <<GameWorld>>
        /\ pc' # "game_world" => pc' = "done" /\ frames' = frames
    /\ pc' = "game_world" => pc \in {"main_menu", "game_world"}

\* C38: the main-menu run returns NewGame with the name typed so far exactly
\* when Enter (StartGame) ended it, and no settings when it ended any other
\* way; run() starts the game-world run exactly when NewGame was returned.
C38_MainMenuOutcome ==
    [][/\ C38_Event
       /\ C38_OnlyEvents
       /\ C38_Returned /\ C38_Returned'
       /\ C38_Runs]_vars
\* the game-world run was started for a name typed with shift held
C38_Witness ==
    /\ pc = "game_world"
    /\ cur.settings = NewGame(<<"L">>)
    /\ frames[1].scenes = <<GameWorld>>

\* the nested run of the command line and the run that waits for it
C39_Nested == Len(frames) >= 2
C39_Inner == frames[Len(frames)]
C39_Outer == frames[Len(frames) - 1]

\* next_event enters the nested run: the scene on top is taken off the
\* stack and waits, the nested run starts on the empty string
C39_Enters ==
    Len(frames') = Len(frames) + 1 =>
        /\ Front(Front(frames')) = Front(frames)
        /\ frames'[Len(frames)].held = Last(Top.scenes)
        /\ frames'[Len(frames)].scenes = Front(Top.scenes)
        /\ frames'[Len(frames)].world = Top.world
        /\ frames'[Len(frames')].scenes = <<CommandLine>>
        /\ frames'[Len(frames')].world = <<>>
\* while it runs nothing of the waiting runs changes, and the string changes
\* only as Read and Delete change it
C39_Runs ==
    C39_Nested /\ Len(frames') = Len(frames) =>
        /\ Front(frames') = Front(frames)
        /\ pc = "main_menu" => cur' = cur
        /\ frames'[Len(frames)].world # C39_Inner.world =>
            /\ last'.op = "Event" /\ last'.tr = Continue
            /\ \/ frames'[Len(frames)].world = Front(C39_Inner.world)
               \/ /\ Len(frames'[Len(frames)].world) = Len(C39_Inner.world) + 1
                  /\ Front(frames'[Len(frames)].world) = C39_Inner.world
\* when it ends the scene that waited is given Command(string)
C39_Ends ==
    Len(frames') = Len(frames) - 1 =>
        /\ last'.op = "Command"
        /\ Front(frames') = Front(Front(frames))
        /\ pc = "main_menu" /\ Len(frames') = 1 => cur'.event = Command(C39_Inner.world)
        /\ \E o \in RunOutcomes(C39_Outer.held, Command(C39_Inner.world), C39_Outer.world,
                                Len(C39_Outer.scenes) + 1) :
              /\ frames'[Len(frames')].scenes =
                    ApplyTransition(C39_Outer.scenes, o.scene, o.tr)
              /\ frames'[Len(frames')].world = o.world
              /\ last'.tr = o.tr
\* a Command is given in no other step
C39_Once ==
    last' # last /\ last'.op = "Command" => Len(frames') = Len(frames) - 1

\* C39: while the nested command line runs, the stack, the world and the
\* waiting scene of the outer run stay as they are and only the string
\* changes, by Read appending and Delete removing the last character; when
\* it ends, the scene that was on top before is given one Command with the
\* final string.
C39_CommandLine == [][C39_Enters /\ C39_Runs /\ C39_Ends /\ C39_Once]_vars
\* the main menu, with a name typed, was given the Command of a command line
\* that read a character
C39_Witness ==
    /\ pc = "main_menu"
    /\ last.op = "Command"
    /\ cur.event.type = "Command" /\ cur.event.cmd # <<>>
    /\ frames[1].scenes # <<>> /\ Last(frames[1].scenes).st # <<>>

\* the entities of g: those of the world and those carried
Headcount(g) == Len(g.objects) + Len(g.inventory)

\* a call of Game::play or Game::ai_turns has returned
C40_Called == pc \in {"played", "ticked"}
C40_NeverMore == C40_Called => Headcount(game) <= Headcount(Was)
C40_LessWhenUsedUp ==
    C40_Called =>
        /\ Headcount(game) < Headcount(Was) =>
              /\ Played("UseItem") /\ ResultOf = "UsedUp"
              /\ Headcount(game) = Headcount(Was) - 1
        /\ Played("UseItem") /\ ResultOf = "UsedUp" => Headcount(game) = Headcount(Was) - 1
\* the PickUp found room in the inventory
C40_PickedUp == Played("PickUp") /\ Len(Was.inventory) < INVENTORY_SLOTS
C40_OthersKept ==
    C40_PickedUp =>
        /\ Headcount(game) = Headcount(Was)
        /\ \A i \in 1..Len(Was.objects) :
              i # cur.action.target =>
                  \E j \in 1..Len(game.objects) :
                      /\ game.objects[j] = Was.objects[i]
                      /\ i # Len(Was.objects) => j = i
                      /\ i = Len(Was.objects) => j = cur.action.target

\* C40: a call never leaves more entities in the world and the inventory
\* together than it found; it leaves fewer, one fewer, exactly when a UseItem
\* resolved to UsedUp; a PickUp that succeeds keeps the sum, keeps every
\* other entity of the world as it was, and gives a new index to none but
\* the former last.
C40_Conservation == C40_NeverMore /\ C40_LessWhenUsedUp /\ C40_OthersKept
\* the potion at index 2 of 4 was picked up into an inventory of three: the
\* scroll that was last is at index 2 and the orc is where it was
C40_Witness ==
    /\ C40_PickedUp
    /\ cur.action.target = 2 /\ Len(Was.objects) = 4 /\ Len(Was.inventory) = 3
    /\ game.objects[2] = Was.objects[4]
    /\ game.objects[3] = Was.objects[3]
    /\ Len(game.inventory) = 4

====
